---- MODULE Spec2Model ----
(***************************************************************************)
(* Model of the vote retrieval pipeline of LemmySeeMyHatersBackend:        *)
(* lemmy_db.py (pagination, the three alru_cache memoized readers, the     *)
(* get_votes_information orchestrator) and the request handlers of main.py.*)
(*                                                                         *)
(* Python's Optional[T] is modelled as a set with at most one element:     *)
(* None is {} and a present value x is {x}.                                *)
(***************************************************************************)
EXTENDS Integers, Sequences, FiniteSets, TLC

VARIABLES
    pg,         \* one paginate_data call / one cursor-chaining client run
    qv,         \* one fixed ledger queried with each vote filter in turn
    db,         \* the data source: objects present and like rows
    cache,      \* the three alru_cache stores, each in OrderedDict order
    tasks,      \* the reads in flight, per cache
    req,        \* the requests being served, one record per handler run
    aggConns,   \* connections opened by get_aggregates_from_pg, still open
    lastFetch,  \* history: time since each key's last successful read
    scope       \* what the clients ask for and the data source may hold

sys == <<db, cache, tasks, req, aggConns, lastFetch, scope>>
vars == <<pg, qv, db, cache, tasks, req, aggConns, lastFetch, scope>>
notPg == <<qv, sys>>         \* everything the pagination steps leave alone
notSys == <<pg, qv, scope>>  \* everything the serving steps leave alone

\* ------------------------------------------------------------------ bounds
MaxLen == 4         \* longest vote list handed to paginate_data
MaxLimit == 3       \* largest page size tried
MaxConns == 2       \* aggregate connections open at once before connect fails
MaxRows == 3        \* most like rows of the ledger the filters are compared on, and the page size asked
MaxChanges == 1     \* most changes of the votes while a client pages or asks filter by filter

Elems == {"a", "b"}

None == {}
Some(x) == {x}
Val(o) == CHOOSE x \in o : TRUE

Min(a, b) == IF a < b THEN a ELSE b
Max(a, b) == IF a > b THEN a ELSE b

SeqsUpTo(S, n) == UNION {[1..k -> S] : k \in 0..n}

\* ---------------------------------------------------------- paginate_data
\* Python's s[i:j] for a list s: negative indices count from the end, both
\* ends are clamped to 0..len(s), an empty range gives [].
PyIndex(n, i) == IF i < 0 THEN Max(n + i, 0) ELSE Min(i, n)

PySlice(s, i, j) ==
    LET lo == PyIndex(Len(s), i)
        hi == PyIndex(Len(s), j)
    IN  IF lo >= hi THEN <<>> ELSE [k \in 1..(hi - lo) |-> s[lo + k]]

\* Faults of paginate_data used to test the pagination properties.
paginate_data_slice_from_zero(all_votes, offset, limit) ==
    IF offset < 0 \/ offset >= Len(all_votes)
    THEN [page |-> <<>>, next_offset |-> None]
    ELSE [page |-> PySlice(all_votes, offset, limit),
          next_offset |-> IF offset + limit < Len(all_votes)
                          THEN Some(offset + limit) ELSE None]

paginate_data_next_at_end(all_votes, offset, limit) ==
    IF offset < 0 \/ offset >= Len(all_votes)
    THEN [page |-> <<>>, next_offset |-> None]
    ELSE [page |-> PySlice(all_votes, offset, offset + limit),
          next_offset |-> IF offset + limit <= Len(all_votes)
                          THEN Some(offset + limit) ELSE None]

paginate_data_next_is_limit(all_votes, offset, limit) ==
    IF offset < 0 \/ offset >= Len(all_votes)
    THEN [page |-> <<>>, next_offset |-> None]
    ELSE [page |-> PySlice(all_votes, offset, offset + limit),
          next_offset |-> IF offset + limit < Len(all_votes)
                          THEN Some(limit) ELSE None]

paginate_data(all_votes, offset, limit) ==
    IF offset < 0 \/ offset >= Len(all_votes)
    THEN [page |-> <<>>, next_offset |-> None]
    ELSE [page |-> PySlice(all_votes, offset, offset + limit),
          next_offset |-> IF offset + limit < Len(all_votes)
                          THEN Some(offset + limit) ELSE None]

\* ------------------------------------------------------------ data model
\* data_models.py: VoteFilter and SortOption values; the object_type literal.
Kinds == {"Post", "Comment"}
Filters == {"All", "Upvotes", "Downvotes"}
Sorts == {"datetime_asc", "datetime_desc"}

\* Names are sequences of characters, so that ILIKE can be computed.
Lower(c) == IF c = "A" THEN "a" ELSE IF c = "B" THEN "b" ELSE c

\* The person rows the ledger joins to: display name and actor id.
Persons == {
    [name |-> <<"a", "b">>, actor_id |-> "https://x.example/u/ab"],
    [name |-> <<"A", "b">>, actor_id |-> "https://y.example/u/Ab"],
    [name |-> <<"b">>,      actor_id |-> "https://x.example/u/b"] }

\* published is a calendar value: day since 1970-01-01, second of the day
\* and microsecond, ordered in that order. The two values are 02:30:00.5 and
\* 03:00:00 of 2023-03-26.
SecondsPerDay == 86400
Published == { [day |-> 19442, sec |-> 9000, us |-> 500000],
               [day |-> 19442, sec |-> 10800, us |-> 0] }
DateLeq(d, e) ==
    \/ d.day < e.day
    \/ d.day = e.day /\ d.sec < e.sec
    \/ d.day = e.day /\ d.sec = e.sec /\ d.us <= e.us

\* The datetime asyncpg gives for a stored value: naive (tzinfo None) for a
\* column "timestamp without time zone", aware with tzinfo UTC for a column
\* "timestamp with time zone". Which one the like tables have is not told
\* by the repository; scope.aware tells it for a run.
Datetime(p, aware) ==
    [day |-> p.day, sec |-> p.sec, us |-> p.us,
     tzinfo |-> IF aware THEN Some(0) ELSE None]

\* The time zone of the host: its standard offset from UTC in seconds and
\* the spans of local time in which daylight saving time is in force (for
\* 2023), from the first local second after the gap to the local second at
\* which the clocks go back.
Saving == 3600
Utc == [std |-> 0, dst |-> {}]
Berlin == [std |-> 3600,
           dst |-> {[from |-> [day |-> 19442, sec |-> 10800],
                     to |-> [day |-> 19659, sec |-> 10800]]}]
NewYork == [std |-> -18000,
            dst |-> {[from |-> [day |-> 19428, sec |-> 10800],
                      to |-> [day |-> 19666, sec |-> 7200]]}]
HostZones == {Utc, Berlin, NewYork}

WallSeconds(d) == d.day * SecondsPerDay + d.sec

\* The offset the host's zone rules give a naive local time (fold = 0): a
\* time in the gap has the offset before the change, a time that comes
\* twice has the offset of its first coming.
UtcOffset(zone, d) ==
    IF \E p \in zone.dst :
          WallSeconds(p.from) <= WallSeconds(d) /\ WallSeconds(d) < WallSeconds(p.to)
    THEN zone.std + Saving
    ELSE zone.std

\* datetime.timestamp(): seconds since the epoch as a float, here whole
\* seconds s and microseconds us. An aware datetime is its own instant; a
\* naive one is read as local time of the host.
timestamp(d, zone) ==
    [s |-> WallSeconds(d) - (IF d.tzinfo # None THEN Val(d.tzinfo)
                             ELSE UtcOffset(zone, d)),
     us |-> d.us]

\* created_utc values compare as the floats do.
TsLeq(a, b) == a.s < b.s \/ (a.s = b.s /\ a.us <= b.us)

\* get_unix_timestamp on the host the process runs on.
get_unix_timestamp(published_datetime) == timestamp(published_datetime, scope.zone)

\* A row of post_like / comment_like joined to its person. One row per
\* (table, object, person): the unique key of the like tables.
LikeSlots == { [table |-> "post_like", obj |-> 1],
               [table |-> "post_like", obj |-> 2],
               [table |-> "comment_like", obj |-> 1] }
LikeRows == { [table |-> l.table, obj |-> l.obj, person |-> p,
               score |-> sc, published |-> d] :
              l \in LikeSlots, p \in Persons, sc \in {1, -1}, d \in Published }
SameKey(a, b) == a.table = b.table /\ a.obj = b.obj /\ a.person = b.person

\* The username query parameter: absent, empty, a plain name, a name with
\* the character "_" (legal in a name, a wildcard to ILIKE).
Usernames == { None, Some(<<>>), Some(<<"a", "b">>), Some(<<"_", "b">>) }

\* ---------------------------------------------------------- query builder
\* Query text is a sequence of fragments; str.format fills the table and
\* column names in and += appends a fragment.
votes_query_template(like_table, id_col) ==
    << "SELECT pe.name, content_likes.score, pe.actor_id, content_likes.published FROM public.",
       like_table,
       " content_likes JOIN public.person pe ON content_likes.person_id = pe.id WHERE content_likes.",
       id_col, " = $1" >>

agg_query_template(agg_table, id_col) ==
    << "SELECT content_agg.score, content_agg.upvotes, content_agg.downvotes FROM public.",
       agg_table, " content_agg WHERE content_agg.", id_col, " = $1" >>

like_table_of(object_type) == IF object_type = "Post" THEN "post_like" ELSE "comment_like"
agg_table_of(object_type) ==
    IF object_type = "Post" THEN "post_aggregates" ELSE "comment_aggregates"
id_col_of(object_type) == IF object_type = "Post" THEN "post_id" ELSE "comment_id"

NameClause == " AND pe.name ILIKE $2"
ScoreClause(n) == IF n = 1 THEN " AND 1 = content_likes.score"
                  ELSE " AND -1 = content_likes.score"
OrderClause(dir) == IF dir = "ASC" THEN " ORDER BY content_likes.published ASC"
                    ELSE " ORDER BY content_likes.published DESC"

\* Fault of the query builder used to test the filter properties: the score
\* clauses of the two filters are exchanged.
build_votes_query_swapped_filter(object_type, votes_filter, sort_by, username) ==
    LET q0 == votes_query_template(like_table_of(object_type), id_col_of(object_type))
        q1 == IF username # None THEN Append(q0, NameClause) ELSE q0
        q2 == IF votes_filter # "All"
              THEN Append(q1, ScoreClause(IF votes_filter = "Upvotes" THEN -1 ELSE 1))
              ELSE q1
    IN  Append(q2, OrderClause(IF sort_by = "datetime_asc" THEN "ASC" ELSE "DESC"))

build_votes_query(object_type, votes_filter, sort_by, username) ==
    LET q0 == votes_query_template(like_table_of(object_type), id_col_of(object_type))
        q1 == IF username # None THEN Append(q0, NameClause) ELSE q0
        q2 == IF votes_filter # "All"
              THEN Append(q1, ScoreClause(IF votes_filter = "Upvotes" THEN 1 ELSE -1))
              ELSE q1
    IN  Append(q2, OrderClause(IF sort_by = "datetime_asc" THEN "ASC" ELSE "DESC"))

build_agg_query(object_type) ==
    agg_query_template(agg_table_of(object_type), id_col_of(object_type))

\* ------------------------------------------------- the data source's answer
\* name ILIKE pattern: case-insensitive, "%" matches any run of characters
\* and "_" any one character.
RECURSIVE ILike(_, _)
ILike(s, p) ==
    IF p = <<>> THEN s = <<>>
    ELSE IF Head(p) = "%"
         THEN ILike(s, Tail(p)) \/ (s # <<>> /\ ILike(Tail(s), p))
         ELSE /\ s # <<>>
              /\ (Head(p) = "_" \/ Lower(Head(s)) = Lower(Head(p)))
              /\ ILike(Tail(s), Tail(p))

Has(q, frag) == \E i \in 1..Len(q) : q[i] = frag

\* The column each like table has for its object.
TableIdCol(table) == IF table = "post_like" THEN "post_id" ELSE "comment_id"

\* The placeholders $n a fragment of query text holds: $1 at the end of the
\* template, $2 in the author clause, none in the names str.format fills in
\* or in the score and order clauses.
ParamsIn(frag) ==
    IF frag = " = $1" THEN {1}
    ELSE IF frag = " AND pe.name ILIKE $2" THEN {2}
    ELSE {}

ParamsOf(q) == UNION { ParamsIn(q[i]) : i \in 1..Len(q) }

\* Number of placeholders $n in a ledger query text.
Placeholders(q) == Cardinality(ParamsOf(q))

\* Rows of the ledger the text q selects with the bound arguments args.
Selected(likes, q, args) ==
    { r \in likes :
        /\ r.table = q[2]
        /\ r.obj = args[1]
        /\ (Has(q, NameClause) => ILike(r.person.name, args[2]))
        /\ (Has(q, ScoreClause(1)) => 1 = r.score)
        /\ (Has(q, ScoreClause(-1)) => -1 = r.score) }

Ordered(rows, q) ==
    \A i, j \in 1..Len(rows) : i < j =>
        /\ Has(q, OrderClause("ASC")) => DateLeq(rows[i].published, rows[j].published)
        /\ Has(q, OrderClause("DESC")) => DateLeq(rows[j].published, rows[i].published)

\* Every answer pg_conn.fetch(q, *args) may give: the selected rows once
\* each, in the ORDER BY order; rows with equal published come in any order.
\* A text whose column or argument count does not fit is refused.
FetchAnswers(likes, q, args) ==
    IF q[4] # TableIdCol(q[2]) \/ Len(args) # Placeholders(q)
    THEN {}
    ELSE LET S == Selected(likes, q, args)
             n == Cardinality(S)
         IN  { rows \in [1..n -> S] :
                 /\ \A i, j \in 1..n : i # j => rows[i] # rows[j]
                 /\ Ordered(rows, q) }

\* Fault of the binding used to test the placeholder property: the author
\* name is bound when it is truthy, so an empty name is left out.
ScoreArgs_binds_truthy(object_local_id, username) ==
    IF username = None \/ Val(username) = <<>> THEN <<object_local_id>>
    ELSE <<object_local_id, Val(username)>>

\* get_scores_from_pg binds the id alone when username is None, else both.
ScoreArgs(object_local_id, username) ==
    IF username = None THEN <<object_local_id>>
    ELSE <<object_local_id, Val(username)>>

\* The asyncpg Record of a ledger row, and its LemmyVote.
Record(r) == [name |-> r.person.name, score |-> r.score,
              actor_id |-> r.person.actor_id,
              published |-> Datetime(r.published, scope.aware)]

LemmyVote(record) ==
    [name |-> record.name, score |-> record.score, actor_id |-> record.actor_id,
     created_utc |-> get_unix_timestamp(record.published)]

ToVotes(records) == [i \in 1..Len(records) |-> LemmyVote(records[i])]
ToRecords(rows) == [i \in 1..Len(rows) |-> Record(rows[i])]

\* Values of variables a specification does not use.
QvIdle == [pc |-> "off"]
PgIdle == [pc |-> "off"]
NoScope == [targets |-> {}, filters |-> {}, sorts |-> {}, usernames |-> {},
            offsets |-> {}, limits |-> {}, voters |-> {},
            zone |-> Utc, aware |-> FALSE]
SysIdle ==
    /\ db = [objs |-> {}, likes |-> {}]
    /\ cache = [id |-> <<>>, agg |-> <<>>, score |-> <<>>]
    /\ tasks = [id |-> {}, agg |-> {}, score |-> {}]
    /\ req = <<>>
    /\ aggConns = 0
    /\ lastFetch = [id |-> {}, agg |-> {}, score |-> {}]
    /\ scope = NoScope

\* ------------------------------------------------- pagination specification
\* pg.pc: "ready" (inputs chosen), "called" (one paginate_data call made),
\* "chain" (the client of stress_test.main between two requests), "sent"
\* (its request is with the server), "done" (next_offset was None),
\* "keyerror" (the answer had no next_offset). pg.items is the list the
\* server slices; pg.changes counts, as history, the times it changed since
\* the client started.
PgInit ==
    /\ qv = QvIdle
    /\ SysIdle
    /\ \E items \in SeqsUpTo(Elems, MaxLen), offset \in -1..(MaxLen + 1),
       limit \in 1..MaxLimit :
        pg = [pc |-> "ready", items |-> items, offset |-> offset,
              limit |-> limit, page |-> <<>>, next_offset |-> None,
              acc |-> <<>>, calls |-> 0, changes |-> 0]

\* One call paginate_data(items, offset, limit).
Paginate ==
    /\ pg.pc = "ready"
    /\ LET r == paginate_data(pg.items, pg.offset, pg.limit)
       IN  pg' = [pg EXCEPT !.pc = "called", !.page = r.page,
                            !.next_offset = r.next_offset]
    /\ UNCHANGED notPg

\* The client loop of stress_test.main: next_offset = 0, then one request
\* per iteration with offset = next_offset until next_offset is None.
ChainStart ==
    /\ pg.pc = "ready"
    /\ pg' = [pg EXCEPT !.pc = "chain", !.offset = 0, !.next_offset = Some(0)]
    /\ UNCHANGED notPg

\* session.get(..., params={offset: next_offset, limit}): the request goes
\* out and the client awaits the answer.
ChainSend ==
    /\ pg.pc = "chain"
    /\ pg.next_offset # None
    /\ pg' = [pg EXCEPT !.pc = "sent", !.offset = Val(pg.next_offset),
                        !.calls = pg.calls + 1]
    /\ UNCHANGED notPg

\* Between two requests of the client, or while one is on its way, the list
\* the server slices changes: a vote is cast (the newest comes first) or
\* one is withdrawn.
ListChanges ==
    /\ pg.pc \in {"chain", "sent"}
    /\ pg.changes < MaxChanges
    /\ \/ /\ Len(pg.items) < MaxLen
          /\ \E e \in Elems :
                pg' = [pg EXCEPT !.items = <<e>> \o pg.items,
                                 !.changes = pg.changes + 1]
       \/ \E i \in 1..Len(pg.items) :
             pg' = [pg EXCEPT !.items = SubSeq(pg.items, 1, i - 1)
                                        \o SubSeq(pg.items, i + 1, Len(pg.items)),
                              !.changes = pg.changes + 1]
    /\ UNCHANGED notPg

\* The server answers 200 with the page paginate_data cuts from its list
\* and with next_offset; the client reads response["next_offset"].
ChainAnswer ==
    /\ pg.pc = "sent"
    /\ LET r == paginate_data(pg.items, pg.offset, pg.limit)
       IN  pg' = [pg EXCEPT !.pc = "chain", !.page = r.page,
                            !.next_offset = r.next_offset,
                            !.acc = pg.acc \o r.page]
    /\ UNCHANGED notPg

\* The server answers with the body of an HTTPException, {"detail": ...}:
\* response["next_offset"] raises KeyError and main ends.
ChainKeyError ==
    /\ pg.pc = "sent"
    /\ pg' = [pg EXCEPT !.pc = "keyerror", !.page = <<>>]
    /\ UNCHANGED notPg

ChainEnd ==
    /\ pg.pc = "chain"
    /\ pg.next_offset = None
    /\ pg' = [pg EXCEPT !.pc = "done"]
    /\ UNCHANGED notPg

PgNext ==
    \/ Paginate \/ ChainStart \/ ChainSend \/ ListChanges
    \/ ChainAnswer \/ ChainKeyError \/ ChainEnd

SpecPaginate == PgInit /\ [][PgNext]_vars

\* ------------------------------------------------- pagination properties
InRange == 0 <= pg.offset /\ pg.offset < Len(pg.items)

\* C1: with limit >= 1, a call with 0 <= offset < len(S) returns exactly
\* min(limit, len(S) - offset) elements; any other offset (negative, or
\* >= len(S), S empty included) returns the empty page and no next offset.
C1_PageSize ==
    (pg.pc = "called" /\ pg.limit >= 1) =>
        IF InRange
        THEN Len(pg.page) = Min(pg.limit, Len(pg.items) - pg.offset)
        ELSE pg.page = <<>> /\ pg.next_offset = None

\* A call whose page is cut short by the end of the list.
C1_Witness ==
    /\ pg.pc = "called" /\ InRange
    /\ pg.offset >= 1
    /\ pg.offset + pg.limit > Len(pg.items)
    /\ Len(pg.page) = Len(pg.items) - pg.offset
    /\ Len(pg.page) >= 2

\* C2: on a list S that has not changed since the client started, following
\* next_offset from 0 with a fixed limit >= 1 takes at most
\* ceil(len(S)/limit) calls (one call for the empty list), the pages read so
\* far are always a prefix of S, and when next_offset is absent they are S.
C2_CursorChain ==
    (pg.pc \in {"chain", "sent", "done", "keyerror"} /\ pg.limit >= 1
     /\ pg.changes = 0) =>
        /\ Len(pg.acc) <= Len(pg.items)
        /\ pg.acc = SubSeq(pg.items, 1, Len(pg.acc))
        /\ (pg.calls - 1) * pg.limit < Max(Len(pg.items), 1)
        /\ (pg.pc = "sent" => pg.offset = Len(pg.acc))
        /\ (pg.pc = "done" => pg.acc = pg.items)

\* A finished chain of several pages, the last one shorter than limit.
C2_Witness ==
    /\ pg.pc = "done"
    /\ pg.changes = 0
    /\ pg.calls >= 2
    /\ pg.limit >= 2
    /\ Len(pg.items) >= 3
    /\ Len(pg.page) < pg.limit
    /\ pg.acc = pg.items

\* C3: for 0 <= offset < len(items) and limit >= 1 the page is the
\* contiguous slice items[offset .. offset+limit) in order, and next_offset
\* is present iff offset+limit < len(items), and then equals offset+limit.
C3_SliceAndCursor ==
    (pg.pc = "called" /\ pg.limit >= 1 /\ InRange) =>
        /\ pg.page = SubSeq(pg.items, pg.offset + 1,
                            Min(pg.offset + pg.limit, Len(pg.items)))
        /\ (pg.next_offset # None <=> pg.offset + pg.limit < Len(pg.items))
        /\ \A n \in pg.next_offset :
               n = pg.offset + pg.limit /\ 0 <= n /\ n < Len(pg.items)

\* A call in the middle of the list, with a next offset.
C3_Witness ==
    /\ pg.pc = "called" /\ InRange
    /\ pg.offset >= 1
    /\ Len(pg.page) = pg.limit
    /\ pg.limit >= 2
    /\ pg.next_offset = Some(pg.offset + pg.limit)

\* ================================================================ serving
\* The served pipeline: the handlers of main.py, get_votes_information, the
\* three memoized readers and the data source they read.
\*
\* Time passes only in Tick. The steps of the event loop take no time, and a
\* timer whose delay has run out fires before any other step is taken.

\* ----------------------------------------------------------- data source
PostUrl == "https://x.example/post/7"
CommentUrl == "https://x.example/comment/9"

\* The objects the data source may hold. The post and the comment have the
\* same numeric local id.
Objects == { [kind |-> "Post", url |-> PostUrl, id |-> 1],
             [kind |-> "Comment", url |-> CommentUrl, id |-> 1] }

KindOfLikeTable(t) == IF t = "post_like" THEN "Post" ELSE "Comment"
KindOfAggTable(t) == IF t = "post_aggregates" THEN "Post" ELSE "Comment"
AggIdCol(t) == IF t = "post_aggregates" THEN "post_id" ELSE "comment_id"

\* "SELECT id FROM public.post WHERE ap_id = $1" (or public.comment):
\* fetchrow gives the row or None.
IdAnswer(d, object_type, url) ==
    { o.id : o \in { x \in d.objs : x.kind = object_type /\ x.url = url } }

\* The aggregates row of an object, kept by the data source in step with its
\* like rows: (score, upvotes, downvotes), in the column order of agg_query.
AggRow(d, kind, id) ==
    LET mine == { r \in d.likes : KindOfLikeTable(r.table) = kind /\ r.obj = id }
        up == Cardinality({ r \in mine : r.score = 1 })
        down == Cardinality({ r \in mine : r.score = -1 })
    IN  <<up - down, up, down>>

\* fetchrow(agg_query, id): the row or None; the text must name a column of
\* the table.
AggAnswer(d, q, id) ==
    IF q[4] # AggIdCol(q[2]) THEN None
    ELSE { AggRow(d, o.kind, o.id) :
             o \in { x \in d.objs : x.kind = KindOfAggTable(q[2]) /\ x.id = id } }

\* Fault of the row mapping used to test the aggregate properties: the
\* first two columns go to the wrong fields.
LemmyObjectAggregate_swapped(rec) ==
    [total_score |-> rec[2], upvotes |-> rec[1], downvotes |-> rec[3]]

\* LemmyObjectAggregate(*rec): the positional fields of the NamedTuple.
LemmyObjectAggregate(rec) ==
    [total_score |-> rec[1], upvotes |-> rec[2], downvotes |-> rec[3]]

\* ------------------------------------------------------------ alru_cache
IdTtl == 180
AggTtl == 180
ScoreTtl == 60
IdMaxSize == 256
AggMaxSize == 256
ScoreMaxSize == 256

CacheNames == {"id", "agg", "score"}
Ttl(c) == IF c = "id" THEN IdTtl ELSE IF c = "agg" THEN AggTtl ELSE ScoreTtl
MaxSize(c) ==
    IF c = "id" THEN IdMaxSize ELSE IF c = "agg" THEN AggMaxSize ELSE ScoreMaxSize

\* A cache is the OrderedDict of the wrapper, oldest use first. An entry is
\* [key, st, val, exc, timer, age, redo]: st is "pending" while its read is
\* in flight, "ok" or "exc" after; val and exc are optional; timer is the
\* time left until call_later pops the entry (None until the read is done).
\* Three fields are history only: age, the time since the entry's read
\* finished; redo, which tells while the read is in flight that the entry
\* replaced one holding an exception, and that one's exception and age; and
\* used, which tells that a call of a run the model follows stored or hit
\* the entry.
Find(es, key) ==
    LET I == { i \in 1..Len(es) : es[i].key = key }
    IN  IF I = {} THEN 0 ELSE CHOOSE i \in I : TRUE

Remove(es, i) == SubSeq(es, 1, i - 1) \o SubSeq(es, i + 1, Len(es))
MoveToEnd(es, i) == Append(Remove(es, i), [es[i] EXCEPT !.used = TRUE])

NewEntry(key, redo) ==
    [key |-> key, st |-> "pending", val |-> None, exc |-> None,
     timer |-> None, age |-> 0, redo |-> redo, used |-> TRUE]

Redo(es, i) ==
    IF i = 0 THEN None ELSE Some([exc |-> Val(es[i].exc), age |-> es[i].age])

\* Fault of the aggregate read used to test the connection properties: it
\* sends its query without opening a connection of its own.
FirstPhase_no_connect(c) == "query"

\* The first await of each wrapped coroutine: get_aggregates_from_pg first
\* connects, the other two send their query on the shared connection.
FirstPhase(c) == IF c = "agg" THEN "connect" ELSE "query"

\* The identity and the ledger reads send their query on the connection
\* the application opened at startup; the aggregate read opens its own.
OnSharedConn(c) == c # "agg"
SharedInFlight(ts) == { t \in ts.id \cup ts.score : ~t.busy }

\* The task the wrapper creates for the wrapped coroutine: its key and where
\* it stands. busy tells that its query is sent on the shared connection
\* while another query is in flight there, which the driver refuses; by,
\* history only, is the handler run that called.
NewTask(ts, c, key, by) ==
    [key |-> key, phase |-> FirstPhase(c), by |-> by,
     busy |-> OnSharedConn(c) /\ SharedInFlight(ts) # {}]

\* Faults of the wrapper's call used to test the cache properties.
\* (a) a finished entry that holds an exception is served like a value.
alru_call_serves_exceptions(cs, ts, c, key, by) ==
    LET es == cs[c]
        i == Find(es, key)
    IN  IF i # 0
        THEN [cache |-> [cs EXCEPT ![c] = MoveToEnd(es, i)], tasks |-> ts,
              how |-> IF es[i].st = "pending" THEN "join" ELSE "hit",
              val |-> es[i].val, exc |-> es[i].exc]
        ELSE [cache |-> [cs EXCEPT ![c] = Append(es, NewEntry(key, None))],
              tasks |-> [ts EXCEPT ![c] = @ \cup {NewTask(ts, c, key, by)}],
              how |-> "miss", val |-> None, exc |-> None]

\* (b) no memoization: every call starts a read.
alru_call_always_reads(cs, ts, c, key, by) ==
    LET es == cs[c]
        i == Find(es, key)
        es1 == IF i # 0 THEN Remove(es, i) ELSE es
    IN  [cache |-> [cs EXCEPT ![c] = Append(es1, NewEntry(key, None))],
         tasks |-> [ts EXCEPT ![c] = @ \cup {NewTask(ts, c, key, by)}],
         how |-> "miss", val |-> None, exc |-> None]

\* (c) no joining: a call that finds a pending entry starts a read of its
\* own beside the one in flight.
alru_call_no_join(cs, ts, c, key, by) ==
    LET es == cs[c]
        i == Find(es, key)
    IN  IF i # 0 /\ es[i].st = "ok"
        THEN [cache |-> [cs EXCEPT ![c] = MoveToEnd(es, i)], tasks |-> ts,
              how |-> "hit", val |-> es[i].val, exc |-> None]
        ELSE LET es1 == IF i # 0 THEN Remove(es, i) ELSE es
                 es2 == Append(es1, NewEntry(key, None))
             IN  [cache |-> [cs EXCEPT ![c] = es2],
                  tasks |-> [ts EXCEPT ![c] = @ \cup {NewTask(ts, c, key, by)}],
                  how |-> "miss", val |-> None, exc |-> None]

\* (d) wrong eviction: when the cache is over its maxsize the entry used
\* last goes instead of the one used longest ago.
alru_call_evicts_newest(cs, ts, c, key, by) ==
    LET es == cs[c]
        i == Find(es, key)
    IN  IF i # 0 /\ es[i].st = "pending"
        THEN [cache |-> [cs EXCEPT ![c] = MoveToEnd(es, i)], tasks |-> ts,
              how |-> "join", val |-> None, exc |-> None]
        ELSE IF i # 0 /\ es[i].st = "ok"
        THEN [cache |-> [cs EXCEPT ![c] = MoveToEnd(es, i)], tasks |-> ts,
              how |-> "hit", val |-> es[i].val, exc |-> None]
        ELSE LET es1 == IF i # 0 THEN Remove(es, i) ELSE es
                 es2 == Append(es1, NewEntry(key, Redo(es, i)))
                 es3 == IF Len(es2) > MaxSize(c)
                        THEN Append(SubSeq(es1, 1, Len(es1) - 1), NewEntry(key, Redo(es, i)))
                        ELSE es2
             IN  [cache |-> [cs EXCEPT ![c] = es3],
                  tasks |-> [ts EXCEPT ![c] = @ \cup {NewTask(ts, c, key, by)}],
                  how |-> "miss", val |-> None, exc |-> None]

\* The wrapper's __call__ up to its first await. A pending entry is joined
\* (the caller awaits the same future), a finished entry with a value is a
\* hit, a finished entry with an exception is popped and read again, and a
\* miss stores a pending entry, evicting the oldest one over maxsize.
alru_call(cs, ts, c, key, by) ==
    LET es == cs[c]
        i == Find(es, key)
    IN  IF i # 0 /\ es[i].st = "pending"
        THEN [cache |-> [cs EXCEPT ![c] = MoveToEnd(es, i)], tasks |-> ts,
              how |-> "join", val |-> None, exc |-> None]
        ELSE IF i # 0 /\ es[i].st = "ok"
        THEN [cache |-> [cs EXCEPT ![c] = MoveToEnd(es, i)], tasks |-> ts,
              how |-> "hit", val |-> es[i].val, exc |-> None]
        ELSE LET es1 == IF i # 0 THEN Remove(es, i) ELSE es
                 es2 == Append(es1, NewEntry(key, Redo(es, i)))
                 es3 == IF Len(es2) > MaxSize(c) THEN Tail(es2) ELSE es2
             IN  [cache |-> [cs EXCEPT ![c] = es3],
                  tasks |-> [ts EXCEPT ![c] = @ \cup {NewTask(ts, c, key, by)}],
                  how |-> "miss", val |-> None, exc |-> None]

\* Faults of the done callback: the timer is set with another cache's ttl.
ttl_of_other_cache(c) == IF c = "score" THEN AggTtl ELSE ScoreTtl + IdTtl

\* The delay passed to call_later when a read is done.
timer_delay(c) == Ttl(c)

\* _task_done_callback: the entry under the key, if there still is one, gets
\* its timer, and the future its result or exception.
alru_done(es, c, key, val, exc) ==
    LET i == Find(es, key)
    IN  IF i = 0 THEN es
        ELSE [es EXCEPT ![i] = [@ EXCEPT !.st = IF exc = None THEN "ok" ELSE "exc",
                                         !.val = val, !.exc = exc,
                                         !.timer = Some(timer_delay(c)), !.age = 0,
                                         !.redo = None]]

\* ------------------------------------------------------------- requests
\* The handler runs in progress are named; the specification fixes how many
\* there are at once.
Reqs == DOMAIN req
OneRequest == {"r1"}

\* What the requests ask for while the pipeline is served: post_votes with
\* the post's URL, with the default sort and no author constraint; and who
\* votes meanwhile.
PostTarget == [kind |-> "Post", url |-> PostUrl]
CommentTarget == [kind |-> "Comment", url |-> CommentUrl]
ServedScope ==
    [targets |-> {PostTarget}, filters |-> {"All"},
     sorts |-> {"datetime_desc"}, usernames |-> {None},
     offsets |-> {0}, limits |-> {1}, voters |-> {<<"a", "b">>},
     zone |-> Utc, aware |-> FALSE]

\* The like rows cast while the pipeline is served: each voter votes on an
\* object once, at that voter's time.
VoteTime(p) == IF p.name = <<"b">> THEN [day |-> 19442, sec |-> 10800, us |-> 0]
               ELSE [day |-> 19442, sec |-> 9000, us |-> 500000]
ServedLikeRows ==
    { r \in LikeRows : /\ r.obj = 1 /\ r.person.name \in scope.voters
                       /\ r.published = VoteTime(r.person)
                       /\ \E t \in scope.targets : t.kind = KindOfLikeTable(r.table) }
ServedObjects == { o \in Objects : \E t \in scope.targets : t.kind = o.kind }

\* A child of the gather: st, its value or exception, and as history how
\* its cache call went ("hit", "join" or "miss").
NoChild == [st |-> "none", val |-> None, exc |-> None, how |-> ""]
NewChild == [st |-> "new", val |-> None, exc |-> None, how |-> ""]

ReqIdle ==
    [pc |-> "idle", object_type |-> "Post", url |-> PostUrl,
     votes_filter |-> "All", sort_by |-> "datetime_desc", username |-> None,
     lid |-> None, agg |-> NoChild, sc |-> NoChild, exc |-> None,
     status |-> 0, resp |-> None,
     \* history: whether the identity read this request awaited found no row,
     \* and whether its identity came from the cache without a read
     norow |-> FALSE, idhit |-> FALSE]

IdKey(r) == <<r.url, r.object_type>>
AggKey(r) == <<build_agg_query(r.object_type), Val(r.lid)>>
\* Fault of the ledger key used to test the key properties: the author name
\* enters the key only as present or absent.
ScoreKey_name_as_flag(r) ==
    <<build_votes_query(r.object_type, r.votes_filter, r.sort_by, r.username),
      Val(r.lid), IF r.username = None THEN None ELSE Some(<<>>)>>

ScoreKey(r) ==
    <<build_votes_query(r.object_type, r.votes_filter, r.sort_by, r.username),
      Val(r.lid), r.username>>

SysInit ==
    /\ pg = PgIdle
    /\ qv = QvIdle
    /\ db = [objs |-> {}, likes |-> {}]
    /\ cache = [id |-> <<>>, agg |-> <<>>, score |-> <<>>]
    /\ tasks = [id |-> {}, agg |-> {}, score |-> {}]
    /\ req = [r \in OneRequest |-> ReqIdle]
    /\ aggConns = 0
    /\ lastFetch = [id |-> {}, agg |-> {}, score |-> {}]
    /\ scope = ServedScope

\* ---------------------------------------------- the data source changes
\* An object appears (it is federated in) or disappears with its rows.
CreateObject ==
    /\ \E o \in ServedObjects \ db.objs : db' = [db EXCEPT !.objs = @ \cup {o}]
    /\ UNCHANGED <<cache, tasks, req, aggConns, lastFetch, notSys>>

RemoveObject ==
    /\ \E o \in db.objs :
        db' = [objs |-> db.objs \ {o},
               likes |-> { r \in db.likes :
                             ~(KindOfLikeTable(r.table) = o.kind /\ r.obj = o.id) }]
    /\ UNCHANGED <<cache, tasks, req, aggConns, lastFetch, notSys>>

\* Somebody votes on an object that exists.
CastVote ==
    /\ \E r \in ServedLikeRows :
        /\ \E o \in db.objs : o.kind = KindOfLikeTable(r.table) /\ o.id = r.obj
        /\ \A o \in db.likes : ~SameKey(o, r)
        /\ db' = [db EXCEPT !.likes = @ \cup {r}]
    /\ UNCHANGED <<cache, tasks, req, aggConns, lastFetch, notSys>>

\* ------------------------------------------------------------------ time
TickSteps == {60}

\* Fault of the timers used to test the removal properties: an entry is
\* dropped as soon as any time has passed.
Expired_at_once(e, d) == e.timer # None

Expired(e, d) == e.timer # None /\ Val(e.timer) <= d

\* d time units pass: every timer runs down by d, call_later pops the
\* entries whose timer has run out, the others grow older.
TickCache(es, d) ==
    LET keep == SelectSeq(es, LAMBDA e : ~Expired(e, d))
    IN  [i \in 1..Len(keep) |->
            IF keep[i].timer = None THEN keep[i]
            ELSE [keep[i] EXCEPT !.timer = Some(Val(keep[i].timer) - d),
                                 !.age = keep[i].age + d]]

TickHistory(h, c, d) ==
    { [key |-> x.key, age |-> x.age + d] : x \in { y \in h : y.age + d < Ttl(c) } }

Tick ==
    /\ \E d \in TickSteps :
        /\ cache' = [c \in CacheNames |-> TickCache(cache[c], d)]
        /\ lastFetch' = [c \in CacheNames |-> TickHistory(lastFetch[c], c, d)]
    /\ UNCHANGED <<db, tasks, req, aggConns, notSys>>

\* --------------------------------------------------------- the handlers
\* post_votes / comment_votes is called with its query parameters and
\* awaits lemmy_search.
Receive(r) ==
    /\ req[r].pc = "idle"
    /\ \E t \in scope.targets, f \in scope.filters, so \in scope.sorts,
          u \in scope.usernames :
        req' = [req EXCEPT ![r] = [ReqIdle EXCEPT !.pc = "search",
                    !.object_type = t.kind, !.url = t.url, !.votes_filter = f,
                    !.sort_by = so, !.username = u]]
    /\ UNCHANGED <<db, cache, tasks, aggConns, lastFetch, notSys>>

\* The ways the search ends without a 200: lemmy_search rejects the URL
\* with HTTPException 422 before any request is sent; the upstream answers
\* with another status and the handler raises HTTPException with that
\* status; or the request, the decoding of its answer or post_data.get on
\* a body that is no dict raises, which is answered with 500.
UpstreamStatuses == {400, 404, 500}
SearchFailures ==
    {[exc |-> "InvalidUrl", status |-> 422]}
    \cup { [exc |-> "UpstreamStatus", status |-> s] : s \in UpstreamStatuses }
    \cup {[exc |-> "UpstreamError", status |-> 500]}
SearchFailed(rec) == \E o \in SearchFailures : rec.exc = Some(o.exc)

SearchFail(r) ==
    /\ req[r].pc = "search"
    /\ \E o \in SearchFailures :
        req' = [req EXCEPT ![r].pc = "failed", ![r].exc = Some(o.exc),
                           ![r].status = o.status]
    /\ UNCHANGED <<db, cache, tasks, aggConns, lastFetch, notSys>>

\* The two coroutines handed to asyncio.gather, not yet run.
StartGather(rec, lid) ==
    [rec EXCEPT !.pc = "gather", !.lid = lid, !.agg = NewChild, !.sc = NewChild]

\* HTTPException keeps its status; any other exception is a 500.
StatusOf(exc) == IF exc = "HTTPException404" THEN 404 ELSE 500

Fail(rec, exc) ==
    [rec EXCEPT !.pc = "failed", !.exc = Some(exc), !.status = StatusOf(exc)]

\* lemmy_search answers 200: get_votes_information builds its texts and
\* calls get_local_id_from_ap_id. On a hit it goes on to the gather without
\* suspending; otherwise it awaits the identity read.
SearchOk(r) ==
    /\ req[r].pc = "search"
    /\ LET c == alru_call(cache, tasks, "id", IdKey(req[r]), r)
       IN  /\ cache' = c.cache
           /\ tasks' = c.tasks
           /\ req' = [req EXCEPT ![r] =
                        IF c.how = "hit" /\ c.exc # None THEN Fail(@, Val(c.exc))
                        ELSE IF c.how = "hit"
                        THEN [StartGather(@, c.val) EXCEPT !.idhit = TRUE]
                        ELSE [@ EXCEPT !.pc = "awaitId"]]
    /\ UNCHANGED <<db, aggConns, lastFetch, notSys>>

\* The awaited identity future is done: line 177 resumes.
IdResume(r) ==
    /\ req[r].pc = "idReady"
    /\ req' = [req EXCEPT ![r] =
                 IF @.exc # None THEN Fail(@, Val(@.exc)) ELSE StartGather(@, @.lid)]
    /\ UNCHANGED <<db, cache, tasks, aggConns, lastFetch, notSys>>

\* A child of the gather after its cache call: done on a hit, else waiting.
ChildAfter(c) ==
    IF c.how = "hit" /\ c.exc # None
    THEN [st |-> "exc", val |-> None, exc |-> c.exc, how |-> c.how]
    ELSE IF c.how = "hit"
    THEN [st |-> "ok", val |-> c.val, exc |-> None, how |-> c.how]
    ELSE [st |-> "wait", val |-> None, exc |-> None, how |-> c.how]

FirstExc(rec, child) ==
    IF rec.exc = None /\ child.st = "exc" THEN child.exc ELSE rec.exc

\* The first child of the gather runs: get_aggregates_from_pg is called.
AggChildStart(r) ==
    /\ req[r].pc = "gather"
    /\ req[r].agg.st = "new"
    /\ LET c == alru_call(cache, tasks, "agg", AggKey(req[r]), r)
       IN  /\ cache' = c.cache
           /\ tasks' = c.tasks
           /\ req' = [req EXCEPT ![r].agg = ChildAfter(c),
                                 ![r].exc = FirstExc(req[r], ChildAfter(c))]
    /\ UNCHANGED <<db, aggConns, lastFetch, notSys>>

\* The second child of the gather runs: get_scores_from_pg is called.
ScoreChildStart(r) ==
    /\ req[r].pc = "gather"
    /\ req[r].agg.st # "new"
    /\ req[r].sc.st = "new"
    /\ LET c == alru_call(cache, tasks, "score", ScoreKey(req[r]), r)
       IN  /\ cache' = c.cache
           /\ tasks' = c.tasks
           /\ req' = [req EXCEPT ![r].sc = ChildAfter(c),
                                 ![r].exc = FirstExc(req[r], ChildAfter(c))]
    /\ UNCHANGED <<db, aggConns, lastFetch, notSys>>

\* Fault of the handler used to test the response properties: total_count
\* is the length of the page.
VotesResponse_counts_page(obj_agg, all_votes, offset, limit) ==
    LET p == paginate_data(all_votes, offset, limit)
    IN  [votes |-> p.page, total_count |-> Len(p.page),
         next_offset |-> p.next_offset, total_score |-> obj_agg.total_score,
         upvotes |-> obj_agg.upvotes, downvotes |-> obj_agg.downvotes,
         offset |-> offset, limit |-> limit]

\* VotesResponse(...) of the handler, from the gather's result. The offset
\* and the limit of the request are kept with it as history.
VotesResponse(obj_agg, all_votes, offset, limit) ==
    LET p == paginate_data(all_votes, offset, limit)
    IN  [votes |-> p.page, total_count |-> Len(all_votes),
         next_offset |-> p.next_offset, total_score |-> obj_agg.total_score,
         upvotes |-> obj_agg.upvotes, downvotes |-> obj_agg.downvotes,
         offset |-> offset, limit |-> limit]

\* Faults of the gather used to test the fan-out properties: a result is
\* put together as soon as the ledger rows are there, with an aggregate of
\* zeros when the aggregate is not.
gather_result_default_agg(rec) ==
    IF rec.sc.st = "ok"
    THEN Some([agg |-> IF rec.agg.st = "ok" THEN Val(rec.agg.val)
                       ELSE LemmyObjectAggregate(<<0, 0, 0>>),
               rows |-> Val(rec.sc.val)])
    ELSE None

\* asyncio.gather has a result, the list of its children's results, when
\* every child has one.
gather_result(rec) ==
    IF rec.agg.st = "ok" /\ rec.sc.st = "ok"
    THEN Some([agg |-> Val(rec.agg.val), rows |-> Val(rec.sc.val)])
    ELSE None

\* asyncio.gather raises the first exception of a child.
gather_raised(rec) == rec.exc # None

\* The gather raised: get_votes_information and the handler raise it.
GatherFail(r) ==
    /\ req[r].pc = "gather"
    /\ req[r].sc.st # "new"
    /\ gather_raised(req[r])
    /\ req' = [req EXCEPT ![r] = Fail(@, Val(@.exc))]
    /\ UNCHANGED <<db, cache, tasks, aggConns, lastFetch, notSys>>

\* The gather returned: the rows are mapped to votes, the handler paginates
\* them and answers.
GatherDone(r) ==
    /\ req[r].pc = "gather"
    /\ req[r].sc.st # "new"
    /\ ~gather_raised(req[r])
    /\ gather_result(req[r]) # None
    /\ \E offset \in scope.offsets, limit \in scope.limits :
        LET result == Val(gather_result(req[r]))
            all_votes == ToVotes(result.rows)
        IN  req' = [req EXCEPT ![r].pc = "done", ![r].status = 200,
                       ![r].resp = Some(VotesResponse(result.agg, all_votes, offset, limit))]
    /\ UNCHANGED <<db, cache, tasks, aggConns, lastFetch, notSys>>

\* The response is sent; the slot serves the next request.
Reset(r) ==
    /\ req[r].pc \in {"done", "failed"}
    /\ req' = [req EXCEPT ![r] = ReqIdle]
    /\ UNCHANGED <<db, cache, tasks, aggConns, lastFetch, notSys>>

\* ------------------------------------------------------------ the reads
\* The future of a finished read is set: every caller awaiting it is made
\* ready with the value or the exception.
Fetched(h, key, exc) ==
    IF exc # None THEN h
    ELSE { x \in h : x.key # key } \cup {[key |-> key, age |-> 0]}

DeliverId(key, o) ==
    [r \in Reqs |->
        IF req[r].pc = "awaitId" /\ IdKey(req[r]) = key
        THEN [req[r] EXCEPT !.pc = "idReady", !.lid = o.val, !.exc = o.exc,
                            !.norow = o.norow]
        ELSE req[r]]

\* Fault of the identity read used to test the not-found properties: the
\* row is used unchecked, as get_local_id_from_ap_id of utils.py does, and
\* rslt.get on None raises AttributeError.
IdOutcomes_unchecked_row(key) ==
    LET row == IdAnswer(db, key[2], key[1])
    IN  { [val |-> None, exc |-> Some("DataSourceError"), norow |-> FALSE] } \cup
        ( IF row = None
          THEN { [val |-> None, exc |-> Some("AttributeError"), norow |-> TRUE] }
          ELSE { [val |-> row, exc |-> None, norow |-> FALSE] } )

\* The identity read ends: fetchrow gives a row (its id is returned), no row
\* (HTTPException 404 is raised), or fails.
IdOutcomes(key) ==
    LET row == IdAnswer(db, key[2], key[1])
    IN  { [val |-> None, exc |-> Some("DataSourceError"), norow |-> FALSE] } \cup
        ( IF row = None
          THEN { [val |-> None, exc |-> Some("HTTPException404"), norow |-> TRUE] }
          ELSE { [val |-> row, exc |-> None, norow |-> FALSE] } )

\* A query sent while the shared connection is busy ends with the driver's
\* exception (InterfaceError: another operation is in progress).
Refused(t, outcomes) ==
    IF t.busy THEN { o \in outcomes : o.exc = Some("DataSourceError") } ELSE outcomes

IdFetchDone ==
    /\ \E t \in tasks.id : \E o \in Refused(t, IdOutcomes(t.key)) :
        /\ tasks' = [tasks EXCEPT !.id = @ \ {t}]
        /\ cache' = [cache EXCEPT !.id = alru_done(@, "id", t.key, o.val, o.exc)]
        /\ lastFetch' = [lastFetch EXCEPT !.id = Fetched(@, t.key, o.exc)]
        /\ req' = DeliverId(t.key, o)
    /\ UNCHANGED <<db, aggConns, notSys>>

WaitsAgg(rec, key) ==
    rec.pc = "gather" /\ rec.agg.st = "wait" /\ AggKey(rec) = key
WaitsScore(rec, key) ==
    rec.pc = "gather" /\ rec.sc.st = "wait" /\ ScoreKey(rec) = key

ChildDone(child, val, exc) ==
    [child EXCEPT !.st = IF exc = None THEN "ok" ELSE "exc", !.val = val, !.exc = exc]

DeliverAgg(key, val, exc) ==
    [r \in Reqs |->
        IF WaitsAgg(req[r], key)
        THEN [req[r] EXCEPT !.agg = ChildDone(@, val, exc),
                            !.exc = FirstExc(req[r], ChildDone(req[r].agg, val, exc))]
        ELSE req[r]]

DeliverScore(key, val, exc) ==
    [r \in Reqs |->
        IF WaitsScore(req[r], key)
        THEN [req[r] EXCEPT !.sc = ChildDone(@, val, exc),
                            !.exc = FirstExc(req[r], ChildDone(req[r].sc, val, exc))]
        ELSE req[r]]

\* asyncpg.connect of get_aggregates_from_pg returns a new connection.
AggConnect ==
    /\ aggConns < MaxConns
    /\ \E t \in { x \in tasks.agg : x.phase = "connect" } :
        tasks' = [tasks EXCEPT !.agg = (@ \ {t}) \cup {[t EXCEPT !.phase = "query"]}]
    /\ aggConns' = aggConns + 1
    /\ UNCHANGED <<db, cache, req, lastFetch, notSys>>

\* asyncpg.connect fails: the read ends with the exception.
AggConnectFail ==
    /\ \E t \in { x \in tasks.agg : x.phase = "connect" } :
        /\ tasks' = [tasks EXCEPT !.agg = @ \ {t}]
        /\ cache' = [cache EXCEPT !.agg =
                        alru_done(@, "agg", t.key, None, Some("DataSourceError"))]
        /\ req' = DeliverAgg(t.key, None, Some("DataSourceError"))
    /\ UNCHANGED <<db, aggConns, lastFetch, notSys>>

\* Fault of the aggregate read used to test the error properties: a missing
\* aggregates row is reported like a missing object.
AggOutcomes_missing_row_404(key) ==
    LET row == AggAnswer(db, key[1], key[2])
    IN  { [val |-> None, exc |-> Some("DataSourceError")] } \cup
        ( IF row = None
          THEN { [val |-> None, exc |-> Some("HTTPException404")] }
          ELSE { [val |-> Some(LemmyObjectAggregate(Val(row))), exc |-> None] } )

\* The aggregate read ends: fetchrow gives a row (LemmyObjectAggregate(*rec)
\* is returned), no row (unpacking None raises TypeError), or fails. The
\* function returns without closing the connection it opened.
AggOutcomes(key) ==
    LET row == AggAnswer(db, key[1], key[2])
    IN  { [val |-> None, exc |-> Some("DataSourceError")] } \cup
        ( IF row = None
          THEN { [val |-> None, exc |-> Some("TypeError")] }
          ELSE { [val |-> Some(LemmyObjectAggregate(Val(row))), exc |-> None] } )

AggFetchDone ==
    /\ \E t \in { x \in tasks.agg : x.phase = "query" } : \E o \in AggOutcomes(t.key) :
        /\ tasks' = [tasks EXCEPT !.agg = @ \ {t}]
        /\ cache' = [cache EXCEPT !.agg = alru_done(@, "agg", t.key, o.val, o.exc)]
        /\ lastFetch' = [lastFetch EXCEPT !.agg = Fetched(@, t.key, o.exc)]
        /\ req' = DeliverAgg(t.key, o.val, o.exc)
    /\ UNCHANGED <<db, aggConns, notSys>>

\* The function has no close and no finally: a connection whose read has
\* ended is left to the garbage collector. Whether and when the collector
\* finalizes the unreferenced connection object, which ends the connection,
\* is not decided by the program.
LeftOpen ==
    aggConns - Cardinality({ x \in tasks.agg : x.phase = "query" })

AggConnFinalized ==
    /\ LeftOpen > 0
    /\ aggConns' = aggConns - 1
    /\ UNCHANGED <<db, cache, tasks, req, lastFetch, notSys>>

\* The ledger read ends: fetch gives the rows, or fails (a text the data
\* source refuses fails too).
ScoreOutcomes(key) ==
    LET username == key[3]
        answers == FetchAnswers(db.likes, key[1], ScoreArgs(key[2], username))
    IN  { [val |-> None, exc |-> Some("DataSourceError")] } \cup
        { [val |-> Some(ToRecords(rows)), exc |-> None] : rows \in answers }

ScoreFetchDone ==
    /\ \E t \in tasks.score : \E o \in Refused(t, ScoreOutcomes(t.key)) :
        /\ tasks' = [tasks EXCEPT !.score = @ \ {t}]
        /\ cache' = [cache EXCEPT !.score = alru_done(@, "score", t.key, o.val, o.exc)]
        /\ lastFetch' = [lastFetch EXCEPT !.score = Fetched(@, t.key, o.exc)]
        /\ req' = DeliverScore(t.key, o.val, o.exc)
    /\ UNCHANGED <<db, aggConns, notSys>>

\* ------------------------------------------------------- specification
SysNext ==
    \/ CreateObject \/ RemoveObject \/ CastVote \/ Tick
    \/ \E r \in Reqs :
        \/ Receive(r) \/ SearchFail(r) \/ SearchOk(r) \/ IdResume(r)
        \/ AggChildStart(r) \/ ScoreChildStart(r)
        \/ GatherFail(r) \/ GatherDone(r) \/ Reset(r)
    \/ IdFetchDone \/ AggConnect \/ AggConnectFail \/ AggFetchDone
    \/ AggConnFinalized \/ ScoreFetchDone

Spec == SysInit /\ [][SysNext]_vars

\* ------------------------------------ the pipeline over a fixed ledger
\* The same handlers and readers, serving requests of one handler, vote
\* filter, sort option and author constraint (none, the empty name, a name,
\* a name with a wildcard) that differ in offset and limit, over a data
\* source that does not change: the object is there with the like rows of
\* two voters.
TwoVoters == {<<"a", "b">>, <<"b">>}
WideScope(t, f, so, u, a) ==
    [targets |-> {t}, filters |-> {f}, sorts |-> {so},
     usernames |-> {u}, offsets |-> 0..(Cardinality(TwoVoters) + 1),
     limits |-> 1..Cardinality(TwoVoters), voters |-> TwoVoters,
     zone |-> Berlin, aware |-> a]

\* The host is in the zone of Berlin. The like tables hold naive values,
\* for every handler, vote filter, sort option and author constraint, or
\* aware ones (then the zone of the host has no part in created_utc), for
\* all votes of the post.
WideScopes ==
    { WideScope(t, f, so, u, FALSE) :
        t \in {PostTarget, CommentTarget}, f \in Filters, so \in Sorts,
        u \in Usernames }
    \cup { WideScope(PostTarget, "All", so, None, TRUE) : so \in Sorts }

WideInit ==
    /\ pg = PgIdle
    /\ qv = QvIdle
    /\ scope \in WideScopes
    /\ \E L \in SUBSET ServedLikeRows :
          /\ \A a, b \in L : SameKey(a, b) => a = b
          /\ db = [objs |-> ServedObjects, likes |-> L]
    /\ cache = [id |-> <<>>, agg |-> <<>>, score |-> <<>>]
    /\ tasks = [id |-> {}, agg |-> {}, score |-> {}]
    /\ req = [r \in OneRequest |-> ReqIdle]
    /\ aggConns = 0
    /\ lastFetch = [id |-> {}, agg |-> {}, score |-> {}]

WideNext ==
    \/ \E r \in Reqs :
        \/ Receive(r) \/ SearchFail(r) \/ SearchOk(r) \/ IdResume(r)
        \/ AggChildStart(r) \/ ScoreChildStart(r)
        \/ GatherFail(r) \/ GatherDone(r) \/ Reset(r)
    \/ IdFetchDone \/ AggConnect \/ AggConnectFail \/ AggFetchDone
    \/ AggConnFinalized \/ ScoreFetchDone

SpecWide == WideInit /\ [][WideNext]_vars

\* --------------------------------------------- two requests at a time
\* Two handler runs in one process, post_votes and comment_votes in any
\* combination, each suspended at its reads, over a data source that does
\* not change: the post and the comment, each with one upvote. Either run
\* may be cancelled while it awaits.
TwoRequests == {"r1", "r2"}
ConcScope ==
    [targets |-> {PostTarget, CommentTarget}, filters |-> {"All"},
     sorts |-> {"datetime_desc"}, usernames |-> {None},
     offsets |-> {0}, limits |-> {1}, voters |-> {<<"a", "b">>},
     zone |-> Utc, aware |-> FALSE]

ConcInit ==
    /\ pg = PgIdle
    /\ qv = QvIdle
    /\ scope = ConcScope
    /\ db = [objs |-> ServedObjects,
             likes |-> { l \in ServedLikeRows : l.score = 1 }]
    /\ cache = [id |-> <<>>, agg |-> <<>>, score |-> <<>>]
    /\ tasks = [id |-> {}, agg |-> {}, score |-> {}]
    /\ req = [r \in TwoRequests |-> ReqIdle]
    /\ aggConns = 0
    /\ lastFetch = [id |-> {}, agg |-> {}, score |-> {}]

\* The task running the handler is cancelled at one of its awaits: of
\* lemmy_search, of the identity read (answered already or not), or of the
\* gather, whether its children have not run yet, are waiting, or have
\* given the gather its result or exception while the caller has not
\* resumed. CancelledError is raised at the await. The two children take
\* their first step in the same turn of the loop, so no cancel comes between
\* them. Cancelling the gather cancels its children: one that has not run
\* never calls its reader; one that has awaits asyncio.shield(fut) inside
\* the wrapper, and the shielded future and the task that fills it are not
\* cancelled.
Cancel(r) ==
    /\ \/ req[r].pc \in {"search", "awaitId", "idReady"}
       \/ req[r].pc = "gather" /\ (req[r].agg.st = "new" \/ req[r].sc.st # "new")
    /\ req' = [req EXCEPT ![r].pc = "cancelled", ![r].exc = Some("CancelledError")]
    /\ UNCHANGED <<db, cache, tasks, aggConns, lastFetch, notSys>>

ConcNext ==
    \/ \E r \in Reqs :
        \/ Receive(r) \/ SearchFail(r) \/ SearchOk(r) \/ IdResume(r)
        \/ AggChildStart(r) \/ ScoreChildStart(r)
        \/ GatherFail(r) \/ GatherDone(r) \/ Cancel(r)
    \/ IdFetchDone \/ AggConnect \/ AggConnectFail \/ AggFetchDone
    \/ AggConnFinalized \/ ScoreFetchDone

SpecConc == ConcInit /\ [][ConcNext]_vars

\* ------------------------------------------- properties of the pipeline
\* The keys whose read is started by a step, and the calls a step makes.
NewReadKeys(c) ==
    { t.key : t \in { x \in tasks'[c] \ tasks[c] : x.phase = FirstPhase(c) } }
InFlight(c, key) == \E t \in tasks[c] : t.key = key
FetchedWithinTtl(c, key) == \E x \in lastFetch[c] : x.key = key
EntryOf(c, key) == { e \in { cache[c][i] : i \in 1..Len(cache[c]) } : e.key = key }

CallsId(r) == req[r].pc = "search" /\ req'[r].pc \in {"awaitId", "gather"}
CallsAgg(r) ==
    req[r].pc = "gather" /\ req[r].agg.st = "new" /\ req'[r].agg.st # "new"
CallsScore(r) ==
    req[r].pc = "gather" /\ req[r].sc.st = "new" /\ req'[r].sc.st # "new"
Calls(r, c) ==
    IF c = "id" THEN CallsId(r) ELSE IF c = "agg" THEN CallsAgg(r) ELSE CallsScore(r)
KeyOf(r, c) ==
    IF c = "id" THEN IdKey(req[r])
    ELSE IF c = "agg" THEN AggKey(req[r]) ELSE ScoreKey(req[r])

\* C4: for each of the three memoized readers, no read of a key is started
\* while a value fetched for that key is younger than the reader's TTL
\* (identity 180, aggregate 180, ledger 60); and a call for a key whose
\* last fetch is at least one TTL old, or that was never fetched, starts
\* exactly one read, of that key, unless such a read is already in flight.
C4_CacheTtl ==
    [][ \A c \in CacheNames :
          /\ \A x \in lastFetch[c] : x.key \notin NewReadKeys(c)
          /\ \A r \in Reqs :
                Calls(r, c) =>
                  IF FetchedWithinTtl(c, KeyOf(r, c)) \/ InFlight(c, KeyOf(r, c))
                  THEN NewReadKeys(c) = {}
                  ELSE NewReadKeys(c) = {KeyOf(r, c)} ]_vars

\* A request in its gather was answered the aggregate from the cache, the
\* entry being at least a ledger TTL old, without a read, and its ledger
\* call, the ledger entry having run out, has started a read.
C4_Witness ==
    \E r \in Reqs :
        /\ req[r].pc = "gather"
        /\ req[r].agg.st = "ok" /\ req[r].agg.how = "hit"
        /\ \E e \in EntryOf("agg", AggKey(req[r])) : e.st = "ok" /\ e.age >= ScoreTtl
        /\ FetchedWithinTtl("agg", AggKey(req[r]))
        /\ req[r].sc.st = "wait" /\ req[r].sc.how = "miss"
        /\ InFlight("score", ScoreKey(req[r]))
        /\ tasks.agg = {}

\* C5: no connection opened for an aggregate read is open when its read has
\* ended: the open connections are those of the reads in flight.
C5_ConnectionsReleased == LeftOpen = 0

\* C6: a request is answered with a result only when both children of the
\* gather have a value, and the result is put together from those two
\* values; when a child has failed the call has the first failure as its
\* exception and no result; a failed child is not called again.
C6_AllOrNothing ==
    /\ [](\A r \in Reqs :
            /\ req[r].pc = "done" =>
                  /\ req[r].agg.st = "ok" /\ req[r].sc.st = "ok"
                  /\ req[r].exc = None /\ req[r].status = 200
                  /\ req[r].resp # None
                  /\ LET resp == Val(req[r].resp)
                         obj_agg == Val(req[r].agg.val)
                         rows == Val(req[r].sc.val)
                     IN  /\ resp.total_score = obj_agg.total_score
                         /\ resp.upvotes = obj_agg.upvotes
                         /\ resp.downvotes = obj_agg.downvotes
                         /\ resp.total_count = Len(rows)
                         /\ resp.votes = paginate_data(ToVotes(rows), resp.offset,
                                                       resp.limit).page
            /\ req[r].pc # "done" => req[r].resp = None
            /\ (req[r].agg.st = "exc" \/ req[r].sc.st = "exc") =>
                  /\ req[r].pc \in {"gather", "failed"}
                  /\ req[r].exc # None
                  /\ req[r].exc \in { c.exc : c \in { x \in {req[r].agg, req[r].sc} :
                                                         x.st = "exc" } }
                  /\ req[r].pc = "failed" => req[r].status = 500)
    /\ [][ \A r \in Reqs :
             /\ (req[r].agg.st = "exc" /\ req'[r].pc = "gather")
                => /\ req'[r].agg = req[r].agg
                   /\ NewReadKeys("agg") = {}
             /\ (req[r].sc.st = "exc" /\ req'[r].pc = "gather")
                => /\ req'[r].sc = req[r].sc
                   /\ NewReadKeys("score") = {}
             /\ (req[r].pc = "gather" /\ req[r].exc # None)
                => /\ req'[r].pc \in {"gather", "failed"}
                   /\ req'[r].exc = req[r].exc ]_vars

\* The ledger read was the first to complete, with its rows, the aggregate
\* read failed after it, and the call has failed with the aggregate's
\* exception.
C6_Witness ==
    \E r \in Reqs :
        /\ req[r].pc = "failed"
        /\ req[r].sc.st = "ok" /\ req[r].sc.val # None
        /\ req[r].agg.st = "exc" /\ req[r].agg.how = "miss"
        /\ req[r].exc = req[r].agg.exc

\* C7: a request whose identity read found no row has HTTPException 404 as
\* its exception, is answered with status 404, and neither child of the
\* gather was ever created for it: no aggregate read and no ledger read.
C7_NotFoundStopsCall ==
    \A r \in Reqs :
        req[r].norow =>
            /\ req[r].exc = Some("HTTPException404")
            /\ req[r].pc \in {"idReady", "failed"}
            /\ req[r].pc = "failed" => req[r].status = 404
            /\ req[r].agg = NoChild /\ req[r].sc = NoChild
            /\ req[r].lid = None /\ req[r].resp = None

\* A request has failed with 404 on a missing row, in a system where no
\* aggregate connection was ever opened and no read is in flight.
C7_Witness ==
    \E r \in Reqs :
        /\ req[r].pc = "failed" /\ req[r].norow /\ req[r].status = 404
        /\ aggConns = 0
        /\ tasks.id = {} /\ tasks.agg = {} /\ tasks.score = {}

\* C8: a call of the identity reader that finds an entry holding an
\* exception (or no entry) starts a read of its key and awaits it; a
\* request comes to HTTPException 404 only by a read of its own that found
\* no row; and an identity read that ends without a data source failure
\* while the row is there gives the row's id.
C8_NotFoundNotCached ==
    [][ \A r \in Reqs :
          /\ ( /\ req[r].pc = "search" /\ req'[r].pc # "search"
               /\ ~SearchFailed(req'[r])
               /\ (\A e \in EntryOf("id", IdKey(req[r])) : e.st = "exc") )
             => /\ req'[r].pc = "awaitId"
                /\ NewReadKeys("id") = {IdKey(req[r])}
          /\ req'[r].exc = Some("HTTPException404") => req'[r].norow
          /\ ( /\ req[r].pc = "awaitId" /\ req'[r].pc = "idReady"
               /\ IdAnswer(db, req[r].object_type, req[r].url) # None
               /\ req'[r].exc # Some("DataSourceError") )
             => /\ req'[r].exc = None
                /\ req'[r].lid = IdAnswer(db, req[r].object_type, req[r].url) ]_vars

\* A request awaits an identity read that was started over an entry holding
\* a NotFound that had just been raised, and the row is there now.
C8_Witness ==
    \E r \in Reqs :
        /\ req[r].pc = "awaitId"
        /\ IdAnswer(db, req[r].object_type, req[r].url) # None
        /\ InFlight("id", IdKey(req[r]))
        /\ \E e \in EntryOf("id", IdKey(req[r])) :
              /\ e.st = "pending"
              /\ e.redo = Some([exc |-> "HTTPException404", age |-> 0])

\* C9: a call answered from the cache is answered with the value of an
\* entry whose read finished no longer ago than the reader's TTL; a call
\* answered by a read is answered when the read finishes.
ServedFrom(c, key, val) ==
    \E e \in EntryOf(c, key) : e.st = "ok" /\ e.val = val /\ e.age <= Ttl(c)

C9_BoundedStaleness ==
    [][ \A r \in Reqs :
          /\ (req[r].pc = "search" /\ req'[r].pc = "gather") =>
                ServedFrom("id", IdKey(req[r]), req'[r].lid)
          /\ (CallsAgg(r) /\ req'[r].agg.st = "ok") =>
                ServedFrom("agg", AggKey(req[r]), req'[r].agg.val)
          /\ (CallsScore(r) /\ req'[r].sc.st = "ok") =>
                ServedFrom("score", ScoreKey(req[r]), req'[r].sc.val)
          /\ \A c \in CacheNames : \A i \in 1..Len(cache'[c]) :
                cache'[c][i].st = "ok" => cache'[c][i].age < Ttl(c) ]_vars

\* A request was answered the identity from an entry two thirds of its TTL
\* old, and the aggregate from an entry of the same age, while the data
\* source has since lost the object.
C9_Witness ==
    \E r \in Reqs :
        /\ req[r].pc = "gather"
        /\ req[r].agg.st = "ok" /\ req[r].agg.how = "hit"
        /\ \E e \in EntryOf("agg", AggKey(req[r])) : e.st = "ok" /\ e.age = 120
        /\ \E e \in EntryOf("id", IdKey(req[r])) : e.st = "ok" /\ e.age = 120
        /\ db.objs = {}

\* ------------------------------------------ properties of the responses
SortedBy(votes, sort_by) ==
    \A i, j \in 1..Len(votes) : i < j =>
        IF sort_by = "datetime_asc"
        THEN TsLeq(votes[i].created_utc, votes[j].created_utc)
        ELSE TsLeq(votes[j].created_utc, votes[i].created_utc)

\* C11: the vote list a request is answered from, the page of its response
\* and every other page sliced from the list are non-decreasing by
\* created_utc for datetime_asc and non-increasing for datetime_desc,
\* whether the ledger rows were read for the request or came from the cache.
\* The rows come ordered by published; created_utc is what
\* get_unix_timestamp makes of published on the host.
C11_SortCorrect ==
    \A r \in Reqs :
        req[r].pc = "done" =>
            LET all_votes == ToVotes(Val(req[r].sc.val))
            IN  /\ SortedBy(all_votes, req[r].sort_by)
                /\ SortedBy(Val(req[r].resp).votes, req[r].sort_by)
                /\ \A o \in scope.offsets, l \in scope.limits :
                      SortedBy(paginate_data(all_votes, o, l).page, req[r].sort_by)

\* The like rows of the data source a request's filter selects, and the
\* aggregates row of its object.
FilteredLikes(rec) ==
    { l \in db.likes :
        /\ KindOfLikeTable(l.table) = rec.object_type /\ l.obj = Val(rec.lid)
        /\ rec.votes_filter = "Upvotes" => l.score = 1
        /\ rec.votes_filter = "Downvotes" => l.score = -1
        /\ rec.username # None => ILike(l.person.name, Val(rec.username)) }

\* C12: over a data source that does not change, every response has as
\* total_count the number of like rows its vote filter and its author
\* constraint select, whatever its offset and limit (the page is empty and
\* next_offset absent when the offset is not below that number), and as
\* total_score, upvotes and downvotes the fields of the object's aggregates
\* row, whatever its filter, sort, author constraint, offset and limit.
C12_CountAndAggregate ==
    \A r \in Reqs :
        req[r].pc = "done" =>
            LET resp == Val(req[r].resp)
                row == AggRow(db, req[r].object_type, Val(req[r].lid))
            IN  /\ resp.total_count = Cardinality(FilteredLikes(req[r]))
                /\ resp.total_count = Len(Val(req[r].sc.val))
                /\ resp.offset >= resp.total_count =>
                      resp.votes = <<>> /\ resp.next_offset = None
                /\ resp.total_score = row[1]
                /\ resp.upvotes = row[2]
                /\ resp.downvotes = row[3]
                /\ resp.total_score = Val(req[r].agg.val).total_score
                /\ resp.upvotes = Val(req[r].agg.val).upvotes
                /\ resp.downvotes = Val(req[r].agg.val).downvotes

\* A request for the downvotes of one author, with an offset equal to the
\* count, is answered an empty page, the count 1 of that author's downvote
\* and the aggregate of the object, which two voters have downvoted.
C12_Witness ==
    \E r \in Reqs :
        /\ req[r].pc = "done" /\ req[r].votes_filter = "Downvotes"
        /\ req[r].username = Some(<<"_", "b">>)
        /\ Val(req[r].resp).total_count = 1 /\ Val(req[r].resp).offset = 1
        /\ Val(req[r].resp).votes = <<>>
        /\ Val(req[r].resp).next_offset = None
        /\ Val(req[r].resp).upvotes = 0 /\ Val(req[r].resp).downvotes = 2
        /\ Val(req[r].resp).total_score = -2

\* C13: get_votes_information raises the 404 exception exactly when the
\* identity read the request awaited found no row; a failure of the
\* aggregate read (a missing aggregates row included) or of the ledger read
\* gives the request another exception and the status 500; and a request is
\* answered with a response only when nothing failed.
C13_ErrorsDistinct ==
    \A r \in Reqs :
        /\ req[r].exc = Some("HTTPException404") <=> req[r].norow
        /\ req[r].pc = "failed" =>
              /\ req[r].exc # None /\ req[r].resp = None
              /\ req[r].norow => req[r].status = 404
              /\ req[r].status # 200
        /\ (req[r].agg.st = "exc" \/ req[r].sc.st = "exc") =>
              /\ req[r].exc \in {Some("DataSourceError"), Some("TypeError")}
              /\ req[r].pc = "failed" => req[r].status = 500
        /\ req[r].pc = "done" =>
              /\ req[r].exc = None /\ ~req[r].norow
              /\ req[r].agg.st = "ok" /\ req[r].sc.st = "ok"

\* The object went after its identity was read: the aggregate read found no
\* row, and the request has failed with the status 500, not 404.
C13_Witness ==
    \E r \in Reqs :
        /\ req[r].pc = "failed" /\ req[r].status = 500
        /\ req[r].lid # None /\ ~req[r].norow
        /\ req[r].agg.st = "exc" /\ req[r].agg.exc = Some("TypeError")
        /\ db.objs = {}

\* C14: every aggregate held by the aggregate cache, handed to a request or
\* put into a response has total_score = upvotes - downvotes, while votes
\* are cast and objects come and go; and the aggregate a read stores is the
\* aggregates row the data source holds as the read ends: score, upvotes
\* and downvotes of that one row, in that order.
Consistent(a) == a.total_score = a.upvotes - a.downvotes

C14_AggregateInvariant ==
    /\ [](/\ \A i \in 1..Len(cache.agg) :
                cache.agg[i].st = "ok" => Consistent(Val(cache.agg[i].val))
          /\ \A r \in Reqs :
                /\ req[r].agg.st = "ok" => Consistent(Val(req[r].agg.val))
                /\ req[r].pc = "done" =>
                      /\ Consistent(Val(req[r].resp))
                      /\ Val(req[r].resp).upvotes >= 0
                      /\ Val(req[r].resp).downvotes >= 0)
    /\ [][ \A i \in 1..Len(cache.agg) : \A j \in 1..Len(cache'.agg) :
             ( /\ cache.agg[i].key = cache'.agg[j].key
               /\ cache.agg[i].st = "pending" /\ cache'.agg[j].st = "ok" )
             => LET row == AggRow(db, KindOfAggTable(cache.agg[i].key[1][2]),
                                  cache.agg[i].key[2])
                    a == Val(cache'.agg[j].val)
                IN  /\ a.total_score = row[1]
                    /\ a.upvotes = row[2]
                    /\ a.downvotes = row[3] ]_vars

\* A request is handed from the cache the aggregate of an object that had
\* one downvote, while the object the data source holds now has one upvote.
C14_Witness ==
    \E r \in Reqs :
        /\ req[r].pc = "gather"
        /\ req[r].agg.st = "ok" /\ req[r].agg.how = "hit"
        /\ Val(req[r].agg.val) = [total_score |-> -1, upvotes |-> 0, downvotes |-> 1]
        /\ db.objs # {}
        /\ AggRow(db, req[r].object_type, Val(req[r].lid)) = <<1, 1, 0>>

\* --------------------------------------- properties of the connections
SharedBy(r) == { t \in tasks.id \cup tasks.score : t.by = r }

\* C15: a handler run has at most one query of its own on the shared
\* connection at any time: while its ledger read is in flight its identity
\* read is over and has given the id; and every aggregate read that has
\* sent its query holds a connection opened for it.
C15_OneSharedQueryPerCall ==
    /\ \A r \in Reqs :
          /\ Cardinality(SharedBy(r)) <= 1
          /\ (\E t \in tasks.score : t.by = r) =>
                /\ req[r].lid # None
                /\ \A t \in tasks.id : t.by # r
          /\ (\E t \in tasks.agg : t.by = r) => req[r].lid # None
    /\ LeftOpen >= 0

\* A run has its ledger query in flight on the shared connection and its
\* aggregate query in flight on a connection of its own.
C15_Witness ==
    \E r \in Reqs :
        /\ req[r].pc = "gather"
        /\ \E t \in tasks.score : t.by = r /\ ~t.busy /\ t.key = ScoreKey(req[r])
        /\ \E t \in tasks.agg : t.by = r /\ t.phase = "query"
        /\ aggConns >= 1

\* C16: no query is sent on the shared connection while another query is in
\* flight on it.
C16_SharedConnExclusive == \A t \in tasks.id \cup tasks.score : ~t.busy

\* ------------------------------------ properties of concurrent misses
Waits(r, c, key) ==
    IF c = "id" THEN req[r].pc = "awaitId" /\ IdKey(req[r]) = key
    ELSE IF c = "agg" THEN WaitsAgg(req[r], key) ELSE WaitsScore(req[r], key)
StillWaits(r, c) ==
    IF c = "id" THEN req'[r].pc = "awaitId"
    ELSE IF c = "agg" THEN req'[r].agg.st = "wait" ELSE req'[r].sc.st = "wait"
Got(r, c) ==
    IF c = "id" THEN <<req'[r].lid, req'[r].exc>>
    ELSE IF c = "agg" THEN <<req'[r].agg.val, req'[r].agg.exc>>
    ELSE <<req'[r].sc.val, req'[r].sc.exc>>
ReadEnds(c, key) ==
    (\E t \in tasks[c] : t.key = key) /\ ~(\E t \in tasks'[c] : t.key = key)

\* What the data source, which does not change here, answers for a key.
Answer(c, key) ==
    IF c = "id" THEN IdAnswer(db, key[2], key[1])
    ELSE IF c = "agg"
    THEN Some(LemmyObjectAggregate(Val(AggAnswer(db, key[1], key[2]))))
    ELSE Some(ToRecords(CHOOSE rows \in FetchAnswers(db.likes, key[1],
                                                     ScoreArgs(key[2], key[3])) : TRUE))

\* C17 as the spec states it: a call of a memoized reader for a key whose
\* read is in flight starts a read of its own.
C17_EachMissReads ==
    [][ \A r \in Reqs : \A c \in CacheNames :
          (Calls(r, c) /\ InFlight(c, KeyOf(r, c))) =>
              NewReadKeys(c) = {KeyOf(r, c)} ]_vars

\* C17 as the code has it: a call of a memoized reader for a key whose read
\* is in flight starts no read and awaits the one in flight; when that read
\* ends every run awaiting it gets the same value or the same exception, and
\* the value is the data source's answer for the key.
C17_SecondJoinsFirst ==
    [][ \A c \in CacheNames :
          /\ \A r \in Reqs :
                (Calls(r, c) /\ InFlight(c, KeyOf(r, c))) =>
                    /\ tasks' = tasks
                    /\ StillWaits(r, c)
          /\ \A t \in tasks[c] :
                ReadEnds(c, t.key) =>
                    \A r1, r2 \in Reqs :
                        (Waits(r1, c, t.key) /\ Waits(r2, c, t.key)) =>
                            /\ ~StillWaits(r1, c)
                            /\ Got(r1, c) = Got(r2, c)
                            /\ Got(r1, c)[2] = None =>
                                  Got(r1, c)[1] = Answer(c, t.key) ]_vars

\* Both runs await the ledger rows of the same key: the first missed and
\* started the read, the second arrived while it was in flight and joined
\* it; one ledger read is in flight.
C17_Witness ==
    /\ req["r1"].pc = "gather" /\ req["r2"].pc = "gather"
    /\ ScoreKey(req["r1"]) = ScoreKey(req["r2"])
    /\ req["r1"].sc.st = "wait" /\ req["r2"].sc.st = "wait"
    /\ {req["r1"].sc.how, req["r2"].sc.how} = {"miss", "join"}
    /\ Cardinality(tasks.score) = 1

\* ------------------------------------------ properties of cancellation
\* C18: once a run is cancelled, an aggregate or ledger read it started,
\* and that no other run awaits, goes no further: it opens no connection
\* and leaves no finished entry in its cache.
C18_FetchesAbandoned ==
    [][ \A r \in Reqs :
          req[r].pc = "cancelled" =>
            \A c \in {"agg", "score"} : \A t \in tasks[c] :
              (t.by = r /\ ~(\E r2 \in Reqs : Waits(r2, c, t.key))) =>
                  /\ \A i \in 1..Len(cache'[c]) :
                        cache'[c][i].key = t.key => cache'[c][i].st = "pending"
                  /\ t.phase = "connect" => [t EXCEPT !.phase = "query"] \notin tasks'[c]
      ]_vars

\* -------------------------------------- properties of entry removal
ResolveCall(r) ==
    /\ req[r].pc = "search" /\ req'[r].pc # "search"
    /\ ~SearchFailed(req'[r])

\* C19 as the spec states it: while the identity cache has an entry for
\* the key of a call, whatever the entry holds, the call starts no read.
C19_NoReadWhileEntry ==
    [][ \A r \in Reqs :
          (ResolveCall(r) /\ EntryOf("id", IdKey(req[r])) # {}) =>
              NewReadKeys("id") = {} ]_vars

\* C19 as the code has it: an identity entry that holds an id leaves the
\* cache only when its TTL has run out (or, at capacity, by eviction), and
\* a call that finds it starts no read and gets that id, whatever the data
\* source holds by then; an entry that holds an exception is dropped by the
\* next call for its key, which reads again at once.
C19_ValueEntriesStay ==
    [][ /\ \A e \in { cache.id[i] : i \in 1..Len(cache.id) } :
              e.st = "ok" =>
                \/ \E i \in 1..Len(cache'.id) :
                      /\ cache'.id[i].key = e.key /\ cache'.id[i].st = "ok"
                      /\ cache'.id[i].val = e.val
                \/ /\ \E d \in TickSteps : e.age + d >= IdTtl
                   /\ tasks' = tasks /\ req' = req /\ db' = db
                \/ Len(cache.id) >= IdMaxSize
        /\ \A r \in Reqs : \A e \in EntryOf("id", IdKey(req[r])) :
              ResolveCall(r) =>
                /\ e.st = "ok" =>
                      /\ NewReadKeys("id") = {}
                      /\ req'[r].pc = "gather" /\ req'[r].lid = e.val
                /\ e.st = "exc" =>
                      /\ NewReadKeys("id") = {IdKey(req[r])}
                      /\ req'[r].pc = "awaitId" ]_vars

\* A request got its identity from an entry two thirds of its TTL old,
\* without a read, although the data source no longer holds the object.
C19_Witness ==
    \E r \in Reqs :
        /\ req[r].pc = "gather" /\ req[r].idhit /\ req[r].agg.st = "new"
        /\ req[r].lid # None
        /\ IdAnswer(db, req[r].object_type, req[r].url) = None
        /\ \E e \in EntryOf("id", IdKey(req[r])) :
              e.st = "ok" /\ e.val = req[r].lid /\ e.age = 120
        /\ tasks.id = {}

\* ------------------------------------------------ the caches when full
\* The process has just served post_votes for the post and then, all within
\* one instant, for as many other posts as fill every cache to its maxsize:
\* the entries of the post are the ones used longest ago. From there the
\* post and the comment are requested, over a data source that does not
\* change. The other posts are not requested again: db holds the rows the
\* requests read, and the entries of the other posts hold what was read for
\* them (a post nobody voted on).
FillUrl(k) == "https://y.example/post/" \o ToString(k)

FillKey(c, k) ==
    IF c = "id" THEN <<FillUrl(k), "Post">>
    ELSE IF c = "agg" THEN <<build_agg_query("Post"), k>>
    ELSE <<build_votes_query("Post", "All", "datetime_desc", None), k, None>>

FirstKey(c) ==
    IF c = "id" THEN <<PostUrl, "Post">>
    ELSE IF c = "agg" THEN <<build_agg_query("Post"), 1>>
    ELSE <<build_votes_query("Post", "All", "datetime_desc", None), 1, None>>

FillVal(c, k) ==
    IF c = "id" THEN Some(k)
    ELSE IF c = "agg" THEN Some(LemmyObjectAggregate(<<0, 0, 0>>))
    ELSE Some(<<>>)

Stored(c, key, val) ==
    [key |-> key, st |-> "ok", val |-> val, exc |-> None,
     timer |-> Some(Ttl(c)), age |-> 0, redo |-> None, used |-> FALSE]

FullCache(c) ==
    [i \in 1..MaxSize(c) |->
        IF i = 1 THEN Stored(c, FirstKey(c), Answer(c, FirstKey(c)))
        ELSE Stored(c, FillKey(c, i), FillVal(c, i))]

CapInit ==
    /\ pg = PgIdle
    /\ qv = QvIdle
    /\ scope = ConcScope
    /\ db = [objs |-> ServedObjects,
             likes |-> { l \in ServedLikeRows : l.score = 1 }]
    /\ cache = [c \in CacheNames |-> FullCache(c)]
    /\ tasks = [id |-> {}, agg |-> {}, score |-> {}]
    /\ req = [r \in OneRequest |-> ReqIdle]
    /\ aggConns = 0
    /\ lastFetch = [c \in CacheNames |->
                      { [key |-> FullCache(c)[i].key, age |-> 0] : i \in 1..MaxSize(c) }]

\* Between two requests, with no read in flight, the clock moves by the ttl
\* of the identity cache, the longest of the three: every timer set so far
\* fires and the caches are empty again.
Quiet ==
    /\ \A r \in Reqs : req[r].pc = "idle"
    /\ \A c \in CacheNames : tasks[c] = {}

IdleForTtl ==
    /\ Quiet
    /\ cache' = [c \in CacheNames |-> TickCache(cache[c], IdTtl)]
    /\ lastFetch' = [c \in CacheNames |-> TickHistory(lastFetch[c], c, IdTtl)]
    /\ UNCHANGED <<db, tasks, req, aggConns, notSys>>

CapNext ==
    \/ IdleForTtl
    \/ \E r \in Reqs :
        \/ Receive(r) \/ SearchFail(r) \/ SearchOk(r) \/ IdResume(r)
        \/ AggChildStart(r) \/ ScoreChildStart(r)
        \/ GatherFail(r) \/ GatherDone(r) \/ Reset(r)
    \/ IdFetchDone \/ AggConnect \/ AggConnectFail \/ AggFetchDone
    \/ AggConnFinalized \/ ScoreFetchDone

SpecCap == CapInit /\ [][CapNext]_vars

\* -------------------------------------------------------------- C20
Full(c) == Len(cache[c]) = MaxSize(c)
Inserts(c) == \E k \in NewReadKeys(c) : Find(cache[c], k) = 0
Gone(c) == Full(c) /\ Find(cache[c], FirstKey(c)) = 0

\* C20: before and after every step no cache holds more than its maxsize
\* (256) entries, and the entries stay in the order of their last use, the
\* ones no followed call touched before the ones a call stored or hit; a
\* call that inserts a key
\* into a full cache removes exactly the entry at the head, the one used
\* longest ago, and keeps every other entry in place; and a call for the key
\* that was evicted starts a fresh read of it.
Bounded(c) ==
    /\ Len(cache[c]) <= MaxSize(c)
    /\ \A i \in 1..(Len(cache[c]) - 1) : cache[c][i].used => cache[c][i + 1].used

C20_CapacityLru ==
    [][\A c \in CacheNames :
        /\ Bounded(c) /\ Bounded(c)'
        /\ (Full(c) /\ Inserts(c)) =>
              /\ Len(cache'[c]) = MaxSize(c)
              /\ cache'[c] = Append(Tail(cache[c]), cache'[c][Len(cache'[c])])
              /\ (cache[c][1].used => \A i \in 1..Len(cache[c]) : cache[c][i].used)
        /\ \A r \in Reqs :
              (Calls(r, c) /\ KeyOf(r, c) = FirstKey(c) /\ Gone(c)) =>
                  /\ FirstKey(c) \in NewReadKeys(c)
                  /\ cache'[c][Len(cache'[c])].key = FirstKey(c)
                  /\ cache'[c][Len(cache'[c])].st = "pending"]_vars

\* The comment was served from full caches and took the place of the post's
\* entries, the ones used longest ago; the post is requested next, and its
\* votes are being read again while the three caches are full.
C20_Witness ==
    /\ \A c \in CacheNames : Full(c)
    /\ \A c \in CacheNames : \E i \in 1..Len(cache["score"]) :
          /\ cache[c][i].used
          /\ cache[c][i].key # FirstKey(c)
          /\ cache[c][i].st = "ok"
    /\ InFlight("score", FirstKey("score"))
    /\ cache["score"][MaxSize("score")].key = FirstKey("score")
    /\ cache["score"][MaxSize("score")].st = "pending"
    /\ cache["id"][MaxSize("id")].key = FirstKey("id")
    /\ cache["id"][2].key = FillKey("id", 4)

\* ----------------------------------------- the pipeline, filter by filter
\* The handlers and readers serve requests of one object kind, vote filter,
\* sort option and author constraint, through the identity read, the two
\* reads of the gather and the caches. The object is there; of its voters
\* "ab" has upvoted and "Ab" has downvoted, and "b" has voted either way or
\* not yet. While a request is served or between two requests somebody who
\* has not voted may vote: qv.changes counts the rows the ledger gained.
QueryScope(t, f, so, u) ==
    [targets |-> {t}, filters |-> {f}, sorts |-> {so}, usernames |-> {u},
     offsets |-> {0}, limits |-> {MaxRows},
     voters |-> { p.name : p \in Persons }, zone |-> Utc, aware |-> FALSE]

QueryScopes ==
    { QueryScope(t, f, so, u) :
        t \in {PostTarget, CommentTarget}, f \in Filters, so \in Sorts,
        u \in Usernames }

QueryLedgers ==
    { L \in SUBSET ServedLikeRows :
        /\ \A a, b \in L : SameKey(a, b) => a = b
        /\ Cardinality(L) <= MaxRows
        /\ \E l \in L : l.person.name = <<"a", "b">> /\ l.score = 1
        /\ \E l \in L : l.person.name = <<"A", "b">> /\ l.score = -1 }

QvInit ==
    /\ pg = PgIdle
    /\ qv = [changes |-> 0]
    /\ scope \in QueryScopes
    /\ \E L \in QueryLedgers : db = [objs |-> ServedObjects, likes |-> L]
    /\ cache = [id |-> <<>>, agg |-> <<>>, score |-> <<>>]
    /\ tasks = [id |-> {}, agg |-> {}, score |-> {}]
    /\ req = [r \in OneRequest |-> ReqIdle]
    /\ aggConns = 0
    /\ lastFetch = [id |-> {}, agg |-> {}, score |-> {}]

\* Somebody votes on the object, at any point of the handlers' run.
InsertLike ==
    /\ qv.changes < MaxChanges
    /\ Cardinality(db.likes) < MaxRows
    /\ \E r \in ServedLikeRows :
        /\ \A o \in db.likes : ~SameKey(o, r)
        /\ db' = [db EXCEPT !.likes = @ \cup {r}]
    /\ qv' = [qv EXCEPT !.changes = @ + 1]
    /\ UNCHANGED <<pg, scope, cache, tasks, req, aggConns, lastFetch>>

QvNext ==
    \/ InsertLike
    \/ \E r \in Reqs :
        \/ Receive(r) \/ SearchFail(r) \/ SearchOk(r) \/ IdResume(r)
        \/ AggChildStart(r) \/ ScoreChildStart(r)
        \/ GatherFail(r) \/ GatherDone(r) \/ Reset(r)
    \/ IdFetchDone \/ AggConnect \/ AggConnectFail \/ AggFetchDone
    \/ AggConnFinalized \/ ScoreFetchDone

SpecQuery == QvInit /\ [][QvNext]_vars

\* ------------------------------------------------------ filter properties
Range(f) == {f[i] : i \in DOMAIN f}
NoDup(f) == \A i, j \in DOMAIN f : i # j => f[i] # f[j]

\* The votes get_votes_information returns for the request rec asked with
\* the vote filter f over the ledger as it is: those of the rows the text
\* built for f selects with the arguments get_scores_from_pg binds.
VotesFor(rec, f) ==
    { LemmyVote(Record(l)) :
        l \in Selected(db.likes,
                       build_votes_query(rec.object_type, f, rec.sort_by, rec.username),
                       ScoreArgs(Val(rec.lid), rec.username)) }

\* C10: for every object kind, sort option and author constraint, the list
\* returned for Upvotes holds only votes of score +1 and the list for
\* Downvotes only votes of score -1; over a ledger that gained no row, the
\* list returned for each filter holds the votes of that filter, and the
\* list for All holds exactly the votes for Upvotes and the votes for
\* Downvotes together, each once.
C10_FilterCorrect ==
    \A r \in Reqs :
        req[r].pc = "done" =>
            LET all_votes == ToVotes(Val(req[r].sc.val))
                up == VotesFor(req[r], "Upvotes")
                down == VotesFor(req[r], "Downvotes")
            IN  /\ req[r].votes_filter = "Upvotes" =>
                      \A i \in DOMAIN all_votes : all_votes[i].score = 1
                /\ req[r].votes_filter = "Downvotes" =>
                      \A i \in DOMAIN all_votes : all_votes[i].score = -1
                /\ qv.changes = 0 =>
                      /\ Range(all_votes) = VotesFor(req[r], req[r].votes_filter)
                      /\ NoDup(all_votes)
                      /\ req[r].votes_filter = "All" =>
                            /\ Range(all_votes) = up \cup down
                            /\ Len(all_votes) = Cardinality(up) + Cardinality(down)

\* All votes were returned for an author constraint from a ledger read of
\* the request, over an unchanged ledger of three rows: an upvote and a
\* downvote the constraint selects and a row it leaves out.
C10_Witness ==
    /\ qv.changes = 0
    /\ Cardinality(db.likes) = 3
    /\ \E r \in Reqs :
        /\ req[r].pc = "done" /\ req[r].sc.how = "miss"
        /\ req[r].votes_filter = "All"
        /\ req[r].username # None
        /\ Len(Val(req[r].sc.val)) = 2
        /\ Cardinality(VotesFor(req[r], "Upvotes")) = 1
        /\ Cardinality(VotesFor(req[r], "Downvotes")) = 1

\* -------------------------------------------------------------- C21
\* The ledger query a request has asked get_scores_from_pg for: its text,
\* and the arguments bound to it.
Asked(rec) == rec.pc \in {"gather", "done", "failed"} /\ rec.sc.st \notin {"none", "new"}
AskedText(rec) ==
    build_votes_query(rec.object_type, rec.votes_filter, rec.sort_by, rec.username)
AskedArgs(rec) == ScoreArgs(Val(rec.lid), rec.username)

\* C21: for every object kind, vote filter, sort option and author name
\* (absent, empty or not), get_scores_from_pg binds as many arguments as the
\* text built by get_votes_information has placeholders, so no fetch is
\* refused for its arguments; the text holds $2 exactly when the author name
\* is not None, and the author name is bound exactly when it is not None.
C21_BindingsMatchPlaceholders ==
    /\ \A t \in tasks.score :
          FetchAnswers(db.likes, t.key[1], ScoreArgs(t.key[2], t.key[3])) # {}
    /\ \A r \in Reqs :
          Asked(req[r]) =>
              /\ Len(AskedArgs(req[r])) = Placeholders(AskedText(req[r]))
              /\ 1 \in ParamsOf(AskedText(req[r]))
              /\ (2 \in ParamsOf(AskedText(req[r]))) <=> (req[r].username # None)
              /\ (Len(AskedArgs(req[r])) = 2) <=> (req[r].username # None)
              /\ (req[r].username # None) =>
                    AskedArgs(req[r])[2] = Val(req[r].username)

\* A request for the votes of a comment by the author with the empty name
\* was answered from a ledger read of its own, over a ledger with votes on
\* the comment: two arguments were bound and no row was selected.
C21_Witness ==
    \E r \in Reqs :
        /\ req[r].pc = "done" /\ req[r].sc.how = "miss"
        /\ req[r].object_type = "Comment"
        /\ req[r].username = Some(<<>>)
        /\ Len(AskedArgs(req[r])) = 2
        /\ Val(req[r].resp).total_count = 0
        /\ \E l \in db.likes : l.table = "comment_like" /\ l.obj = Val(req[r].lid)

\* ------------------------------------------------------- the cache keys
\* Two requests are served at once from empty caches over a data source
\* that does not change. The two may differ in one parameter: the object
\* kind, the vote filter, the sort option or the author name (one of them
\* asks for the post, all votes, newest first, or both do). The post and
\* the comment both have the local id 1; the post has an upvote and a
\* downvote, the comment two downvotes, so that requests that differ in a
\* parameter have different answers.
KeyFilters == {"All", "Upvotes"}
KeyNames == { None, Some(<<>>), Some(<<"a", "b">>) }

KeyScopes ==
    { sc \in [targets : SUBSET {PostTarget, CommentTarget}, filters : SUBSET KeyFilters,
              sorts : SUBSET Sorts, usernames : SUBSET KeyNames,
              offsets : {{0}}, limits : {{1}}, voters : {TwoVoters},
              zone : {Utc}, aware : {FALSE}] :
        /\ PostTarget \in sc.targets /\ "All" \in sc.filters
        /\ "datetime_desc" \in sc.sorts
        /\ Cardinality(sc.targets) * Cardinality(sc.filters)
              * Cardinality(sc.sorts) * Cardinality(sc.usernames) = 2 }

KeysInit ==
    /\ pg = PgIdle
    /\ qv = QvIdle
    /\ scope \in KeyScopes
    /\ db = [objs |-> ServedObjects,
             likes |-> { l \in ServedLikeRows :
                          l.score = IF l.table = "post_like" /\ l.person.name = <<"a", "b">>
                                    THEN 1 ELSE -1 }]
    /\ cache = [id |-> <<>>, agg |-> <<>>, score |-> <<>>]
    /\ tasks = [id |-> {}, agg |-> {}, score |-> {}]
    /\ req = [r \in TwoRequests |-> ReqIdle]
    /\ aggConns = 0
    /\ lastFetch = [id |-> {}, agg |-> {}, score |-> {}]

KeysNext ==
    \/ \E r \in Reqs :
        \/ Receive(r) \/ SearchFail(r) \/ SearchOk(r) \/ IdResume(r)
        \/ AggChildStart(r) \/ ScoreChildStart(r)
        \/ GatherFail(r) \/ GatherDone(r)
    \/ IdFetchDone \/ AggConnect \/ AggConnectFail \/ AggFetchDone
    \/ AggConnFinalized \/ ScoreFetchDone

SpecKeys == KeysInit /\ [][KeysNext]_vars

\* -------------------------------------------------------------- C22
\* The query text as one string: the fragments joined.
RECURSIVE Text(_)
Text(q) == IF q = <<>> THEN "" ELSE Head(q) \o Text(Tail(q))

KeyInputs == Kinds \X Filters \X Sorts \X Usernames
TextOf(a) == Text(build_votes_query(a[1], a[2], a[3], a[4]))

\* The ledger text is the same for two inputs exactly when they agree on
\* the object kind, the vote filter, the sort option and on whether an
\* author name is given; the aggregate text tells the object kind.
TextInjective ==
    /\ \A a, b \in KeyInputs :
          (TextOf(a) = TextOf(b)) <=>
              (a[1] = b[1] /\ a[2] = b[2] /\ a[3] = b[3] /\ ((a[4] = None) <=> (b[4] = None)))
    /\ \A j, k \in Kinds :
          Text(build_agg_query(j)) = Text(build_agg_query(k)) => j = k
    /\ \A k \in Kinds, a \in KeyInputs : Text(build_agg_query(k)) # TextOf(a)

SameObject(a, b) == a.object_type = b.object_type /\ a.lid = b.lid
SameAsk(a, b) ==
    /\ SameObject(a, b)
    /\ a.votes_filter = b.votes_filter /\ a.sort_by = b.sort_by
    /\ a.username = b.username
Other(r) == CHOOSE x \in Reqs : x # r
FromCache(child) == child.how \in {"hit", "join"}

\* What the data source answers for the request itself.
OwnVotes(rec) ==
    Answer("score", <<build_votes_query(rec.object_type, rec.votes_filter,
                                         rec.sort_by, rec.username),
                      Val(rec.lid), rec.username>>)
OwnAggregate(rec) == Answer("agg", <<build_agg_query(rec.object_type), Val(rec.lid)>>)
ServedOwn(rec) ==
    /\ rec.sc.st = "ok" => rec.sc.val = OwnVotes(rec)
    /\ rec.agg.st = "ok" => rec.agg.val = OwnAggregate(rec)

\* C22 as the spec states it: a request gets a ledger or an aggregate result
\* from the cache only when the request that stored it has the same object
\* kind, vote filter, sort option, author name and local id.
C22_CachedForSameRequest ==
    /\ TextInjective
    /\ \A r \in Reqs :
          /\ FromCache(req[r].sc) => SameAsk(req[r], req[Other(r)])
          /\ FromCache(req[r].agg) => SameAsk(req[r], req[Other(r)])
          /\ ServedOwn(req[r])

\* C22 as the code has it: the ledger key is the text, the local id and the
\* author name, the aggregate key the aggregate text and the local id. A
\* ledger result comes from the cache only for a request with the same
\* object kind, vote filter, sort option, author name and local id as the
\* one that stored it, an aggregate result only for a request for the same
\* object kind and local id, whatever its filter, sort and author name; and
\* every request gets the votes and the aggregate of its own parameters, a
\* post and a comment with the same local id never each other's.
C22_KeysTellRequestsApart ==
    /\ TextInjective
    /\ \A r \in Reqs :
          /\ FromCache(req[r].sc) => SameAsk(req[r], req[Other(r)])
          /\ FromCache(req[r].agg) => SameObject(req[r], req[Other(r)])
          /\ ServedOwn(req[r])

\* Two requests for the post that differ in the author name only, one empty
\* and one not, so that their ledger texts are the same: both are answered,
\* the second got the aggregate the first stored and read its own votes,
\* and the two vote lists differ.
C22_Witness ==
    /\ req["r1"].pc = "done" /\ req["r2"].pc = "done"
    /\ SameObject(req["r1"], req["r2"])
    /\ req["r1"].username = Some(<<>>) /\ req["r2"].username = Some(<<"a", "b">>)
    /\ ScoreKey(req["r1"])[1] = ScoreKey(req["r2"])[1]
    /\ req["r1"].agg.how = "miss" /\ FromCache(req["r2"].agg)
    /\ req["r2"].sc.how = "miss"
    /\ req["r1"].sc.val # req["r2"].sc.val
    /\ req["r2"].sc.val = OwnVotes(req["r2"])

====
